---- MODULE Spec2Model ----
(***************************************************************************)
(* Model of cloud_foundry's OpenAPI editor (utils/openapi_editor.py,       *)
(* utils/aws_openapi_editor.py) and of the RestAPI component that gathers  *)
(* deployment outputs and patches the spec (pulumi/rest_api.py).           *)
(*                                                                         *)
(* Three specifications share the variables:                               *)
(*   Spec        one RestAPI build: __init__, the Output.all barrier, the  *)
(*               build_api continuation and _build;                        *)
(*   EditorSpec  the editor's public patch operations called directly on   *)
(*               an editor instance;                                       *)
(*   StoreSpec   the construction of an editor from spec sources, then     *)
(*               merge_with and the accessors called on it.                *)
(***************************************************************************)
EXTENDS Integers, Sequences, FiniteSets, TLC

\* ------------------------------------------------------------------ bounds

MaxIntegrations == 2
MaxValidators == 2
MaxContent == 1
MaxCalls == 2
MaxFragments == 2

Min(a, b) == IF a < b THEN a ELSE b
Max(a, b) == IF a > b THEN a ELSE b

\* All sequences over S of length 0..n.
SeqsUpTo(S, n) == UNION {[1..k -> S] : k \in 0..n}

\* ------------------------------------------------------------- spec tree
\* A node of openapi_spec is a tagged record: a mapping keeps its entries in
\* insertion order (a Python dict), a scalar keeps its string.  An Output
\* node is a pulumi.Output object stored in the tree, not a resolved value.

Str(s) == [t |-> "str", s |-> s]
Num(i) == [t |-> "int", i |-> i]
OutputNode(h) == [t |-> "output", o |-> h]
None == [t |-> "none"]
EmptyMap == [t |-> "map", e |-> <<>>]
IsMap(n) == n.t = "map"

\* key in mapping
HasKey(m, k) == IsMap(m) /\ \E i \in DOMAIN m.e : m.e[i].k = k

\* mapping.get(key): None when the key is absent
Get(m, k) ==
  IF HasKey(m, k) THEN m.e[CHOOSE i \in DOMAIN m.e : m.e[i].k = k].n ELSE None

\* mapping[key] = value: an existing key keeps its position, a new one is last
Put(m, k, v) ==
  IF HasKey(m, k)
  THEN [m EXCEPT !.e = [i \in DOMAIN m.e |->
                          IF m.e[i].k = k THEN [k |-> k, n |-> v] ELSE m.e[i]]]
  ELSE [m EXCEPT !.e = Append(m.e, [k |-> k, n |-> v])]

\* A dict literal: entries in source order.
MapOf(entries) == [t |-> "map", e |-> [i \in DOMAIN entries |->
                                         [k |-> entries[i][1], n |-> entries[i][2]]]]

\* The node at a key path, None when a segment is absent or not a mapping.
RECURSIVE GetPath(_, _)
GetPath(n, keys) ==
  IF keys = <<>> THEN n
  ELSE IF ~HasKey(n, Head(keys)) THEN None
  ELSE GetPath(Get(n, Head(keys)), Tail(keys))

\* The tree with the node at a key path of existing mappings replaced: what an
\* in-place assignment through a reference to that node does to the tree.
RECURSIVE SetPath(_, _, _)
SetPath(n, keys, v) ==
  IF keys = <<>> THEN v
  ELSE Put(n, Head(keys), SetPath(Get(n, Head(keys)), Tail(keys), v))

\* Outcome of an editor call: the tree it leaves and the exception it raised.
Ok(tree) == [tree |-> tree, exc |-> "none"]
Raise(tree, e) == [tree |-> tree, exc |-> e]

\* ------------------------------------------------------- backend units
\* A cloud_foundry Function: its logical name (Function.name) and whether it
\* imports an existing Lambda (no archive, hash, runtime or handler given).

FnA == [name |-> "fnA", imported |-> FALSE]
FnB == [name |-> "fnB", imported |-> TRUE]
Functions == {FnA, FnB}

\* The resolved value of lambda_.name: "<project>-<stack>-<name>" for a Lambda
\* the component creates, the looked-up function's own name for an import.
LambdaName(f) ==
  IF f.imported THEN f.name
  ELSE CASE f.name = "fnA" -> "proj-stack-fnA"
         [] f.name = "fnB" -> "proj-stack-fnB"

\* The resolved value of lambda_.invoke_arn.
LambdaInvokeArn(f) ==
  CASE f.name = "fnA" -> "arn:invoke:fnA"
    [] f.name = "fnB" -> "arn:invoke:fnB"

\* Function.invoke_arn and Function.function_name: unresolved pulumi Outputs
\* of the function's Lambda resource.
invoke_arn(f) == [res |-> f.name, attr |-> "invoke_arn"]
function_name(f) == [res |-> f.name, attr |-> "name"]

\* The gateway role made by _get_gateway_role and its arn Output.
GatewayRole == "api-gw-role"
GatewayRoleArn == "arn:iam:api-gw-role"
gateway_role_arn == [res |-> GatewayRole, attr |-> "arn"]

Resources == {f.name : f \in Functions} \cup {GatewayRole}

\* The value an Output resolves to.
ResolvedValue(h) ==
  IF h.res = GatewayRole THEN GatewayRoleArn
  ELSE LET f == CHOOSE g \in Functions : g.name = h.res
       IN IF h.attr = "invoke_arn" THEN LambdaInvokeArn(f) ELSE LambdaName(f)

\* ---------------------------------------------------- OpenAPISpecEditor

\* str.lower() on the HTTP methods the declarations use.
Lower(method) ==
  CASE method = "GET" -> "get"
    [] method = "POST" -> "post"
    [] OTHER -> method

\* The modelled strings of which another modelled string is a substring.
SubstringPairs == { <<"version", "version 2.0">> }

\* "key in node" for a string key: a mapping's keys, a sequence's elements, a
\* string's substrings; any other value is not iterable.
PyIn(key, node) ==
  CASE node.t = "map" -> IF HasKey(node, key) THEN "yes" ELSE "no"
    [] node.t = "seq" ->
         IF \E i \in DOMAIN node.q : node.q[i] = Str(key) THEN "yes" ELSE "no"
    [] node.t = "str" ->
         IF key = node.s \/ <<key, node.s>> \in SubstringPairs THEN "yes" ELSE "no"
    [] OTHER -> "TypeError"

\* get_or_create_spec_part(keys, create), walking from the keys already
\* passed (done) over the keys left (rest).
RECURSIVE GetOrCreateFrom(_, _, _, _)

\* "if create and key not in part: part[key] = {}" at the key path here
CreateMissing(tree, part, here, create) ==
  IF create /\ ~HasKey(part, here[Len(here)])
  THEN SetPath(tree, here, EmptyMap) ELSE tree

\* "part = part.get(key); if part is None: raise KeyError", then the next key
StepInto(tree, here, rest, create) ==
  IF GetPath(tree, here) = None
  THEN Raise(tree, "KeyError")
  ELSE GetOrCreateFrom(tree, here, rest, create)

\* One turn of the loop, part being the node reached so far: a part that is
\* no mapping has no get, and takes no item assignment when "key not in
\* part" lets the creation run.
GetOrCreateTurn(tree, part, here, rest, create) ==
  IF ~IsMap(part)
  THEN Raise(tree, IF create /\ PyIn(here[Len(here)], part) # "yes"
                   THEN "TypeError" ELSE "AttributeError")
  ELSE StepInto(CreateMissing(tree, part, here, create), here, rest, create)

GetOrCreateFrom(tree, done, rest, create) ==
  IF rest = <<>> THEN Ok(tree)
  ELSE GetOrCreateTurn(tree, GetPath(tree, done), Append(done, Head(rest)),
                       Tail(rest), create)

get_or_create_spec_part(tree, keys, create) == GetOrCreateFrom(tree, <<>>, keys, create)

\* What a call gives back: the value returned, or the exception raised.
Returned(value) == [ret |-> value, exc |-> "none"]
Raised(e) == [ret |-> None, exc |-> e]

\* "try: return ... except KeyError: return None", r being the outcome of
\* the get_or_create_spec_part call: any other exception goes on to the caller.
SpecPartOrNone(r, keys) ==
  IF r.exc = "none" THEN Returned(GetPath(r.tree, keys))
  ELSE IF r.exc = "KeyError" THEN Returned(None)
  ELSE Raised(r.exc)

\* get_spec_part(keys, create): the walk is made with create False whatever
\* the argument.
get_spec_part(tree, keys, create) ==
  SpecPartOrNone(get_or_create_spec_part(tree, keys, FALSE), keys)

\* The key path get_operation(path, method) returns a reference to.
OperationKeys(path, method) == <<"paths", path, Lower(method)>>

\* "if method not in operations: raise ValueError", then "operations[method]":
\* only a mapping takes a string index.
MethodLookup(operations, method) ==
  CASE PyIn(method, operations) = "TypeError" -> "TypeError"
    [] PyIn(method, operations) = "no" -> "ValueError"
    [] OTHER -> IF IsMap(operations) THEN "none" ELSE "TypeError"

\* "if path not in self.openapi_spec.get("paths", {}): raise ValueError", then
\* "operations = self.openapi_spec["paths"][path]" and the method lookup.
PathLookup(paths, path, method) ==
  CASE PyIn(path, paths) = "TypeError" -> "TypeError"
    [] PyIn(path, paths) = "no" -> "ValueError"
    [] OTHER -> IF IsMap(paths) THEN MethodLookup(Get(paths, path), method)
                ELSE "TypeError"

\* A lookup with the method as given, not lowercased.
GetOperationAsGiven(tree, path, method) ==
  PathLookup(IF HasKey(tree, "paths") THEN Get(tree, "paths") ELSE EmptyMap,
             path, method)

\* get_operation(path, method): the exception it raises, "none" when it
\* returns the operation.
get_operation(tree, path, method) ==
  PathLookup(IF HasKey(tree, "paths") THEN Get(tree, "paths") ELSE EmptyMap,
             path, Lower(method))

\* An assignment that leaves the operation with the one attribute only.
SetOperationAttributeOnly(tree, exc, keys, attribute, value) ==
  IF exc # "none" THEN Raise(tree, exc)
  ELSE Ok(SetPath(tree, keys, MapOf(<< <<attribute, value>> >>)))

\* add_operation_attribute(path, method, attribute, value)
\* "operation[attribute] = value" on the operation get_operation returned,
\* exc being what get_operation raised.
SetOperationAttribute(tree, exc, keys, attribute, value) ==
  IF exc # "none" THEN Raise(tree, exc)
  ELSE IF ~IsMap(GetPath(tree, keys)) THEN Raise(tree, "TypeError")
  ELSE Ok(SetPath(tree, Append(keys, attribute), value))

add_operation_attribute(tree, path, method, attribute, value) ==
  SetOperationAttribute(tree, get_operation(tree, path, method),
                        OperationKeys(path, method), attribute, value)

\* ------------------------------------------------- AWSOpenAPISpecEditor

\* A scheme whose vendor-authorizer object lacks identitySource.
TokenAuthorizerSchemeNoSource(function_name_value, authentication_invoke_arn) ==
  MapOf(<< <<"type", Str("apiKey")>>,
           <<"name", Str("Authorization")>>,
           <<"in", Str("header")>>,
           <<"x-function-name", function_name_value>>,
           <<"x-amazon-apigateway-authtype", Str("custom")>>,
           <<"x-amazon-apigateway-authorizer",
             MapOf(<< <<"type", Str("token")>>,
                      <<"authorizerUri", Str(authentication_invoke_arn)>>,
                      <<"identityValidationExpression", Str("^Bearer [-0-9a-zA-Z._]*$")>>,
                      <<"authorizerResultTtlInSeconds", Num(60)>> >>)>> >>)

\* The security scheme add_token_authorizer writes.
TokenAuthorizerScheme(function_name_value, authentication_invoke_arn) ==
  MapOf(<< <<"type", Str("apiKey")>>,
           <<"name", Str("Authorization")>>,
           <<"in", Str("header")>>,
           <<"x-function-name", function_name_value>>,
           <<"x-amazon-apigateway-authtype", Str("custom")>>,
           <<"x-amazon-apigateway-authorizer",
             MapOf(<< <<"type", Str("token")>>,
                      <<"authorizerUri", Str(authentication_invoke_arn)>>,
                      <<"identityValidationExpression", Str("^Bearer [-0-9a-zA-Z._]*$")>>,
                      <<"identitySource", Str("method.request.header.Authorization")>>,
                      <<"authorizerResultTtlInSeconds", Num(60)>> >>)>> >>)

SecuritySchemesKeys == <<"components", "securitySchemes">>

\* add_token_authorizer(name, function_name, authentication_invoke_arn)
\* "security_schemes[name] = {...}", r being the outcome of the
\* get_or_create_spec_part call before it (an exception there ends the method).
SetSecurityScheme(r, name, scheme) ==
  IF r.exc # "none" THEN r
  ELSE IF ~IsMap(GetPath(r.tree, SecuritySchemesKeys)) THEN Raise(r.tree, "TypeError")
  ELSE Ok(SetPath(r.tree, Append(SecuritySchemesKeys, name), scheme))

add_token_authorizer(tree, name, function_name_value, authentication_invoke_arn) ==
  SetSecurityScheme(get_or_create_spec_part(tree, SecuritySchemesKeys, TRUE), name,
                    TokenAuthorizerScheme(function_name_value, authentication_invoke_arn))

\* A loop turn that patches whatever the declaration's type is.
AuthorizerStepAnyType(tree, authorizer, invoke_arn_value) ==
  add_token_authorizer(tree, authorizer.name, Str(authorizer.function.name),
                       invoke_arn_value)

\* One turn of process_authorizers' loop: only the "token" type is patched,
\* with the function's logical name (authorizer["function"].name).
AuthorizerStep(tree, authorizer, invoke_arn_value) ==
  IF authorizer.type = "token"
  THEN add_token_authorizer(tree, authorizer.name, Str(authorizer.function.name),
                            invoke_arn_value)
  ELSE Ok(tree)

\* process_authorizers(authorizers, invoke_arns): zip stops at the shorter
\* list, an exception ends the loop with the earlier patches in place.
RECURSIVE ProcessAuthorizersFrom(_, _, _, _)

\* The loop after a turn whose outcome is r.
AuthorizersAfter(r, authorizers, invoke_arns, i) ==
  IF r.exc # "none" THEN r
  ELSE ProcessAuthorizersFrom(r.tree, authorizers, invoke_arns, i)

ProcessAuthorizersFrom(tree, authorizers, invoke_arns, i) ==
  IF i > Min(Len(authorizers), Len(invoke_arns)) THEN Ok(tree)
  ELSE AuthorizersAfter(AuthorizerStep(tree, authorizers[i], invoke_arns[i]),
                        authorizers, invoke_arns, i + 1)

process_authorizers(tree, authorizers, invoke_arns) ==
  ProcessAuthorizersFrom(tree, authorizers, invoke_arns, 1)

\* The vendor-integration object _add_integration writes.
IntegrationObject(invoke_arn_value) ==
  MapOf(<< <<"type", Str("aws_proxy")>>,
           <<"uri", Str(invoke_arn_value)>>,
           <<"httpMethod", Str("POST")>> >>)

\* The second add_operation_attribute call of _add_integration, r being the
\* outcome of the first.
AddIntegrationObject(r, path, method, invoke_arn_value) ==
  IF r.exc # "none" THEN r
  ELSE add_operation_attribute(r.tree, path, method,
                               "x-amazon-apigateway-integration",
                               IntegrationObject(invoke_arn_value))

\* _add_integration(path, method, function_name, invoke_arn)
add_integration(tree, path, method, function_name_value, invoke_arn_value) ==
  AddIntegrationObject(
    add_operation_attribute(tree, path, method, "x-function-name", function_name_value),
    path, method, invoke_arn_value)

\* One turn of process_integrations' loop: the function name written is
\* integration["function"].function_name, the function's Output object.
IntegrationStep(tree, integration, invoke_arn_value) ==
  add_integration(tree, integration.path, integration.method,
                  OutputNode(function_name(integration.function)), invoke_arn_value)

\* process_integrations(integrations, invoke_arns)
RECURSIVE ProcessIntegrationsFrom(_, _, _, _)

\* The loop after a turn whose outcome is r.
IntegrationsAfter(r, integs, invoke_arns, i) ==
  IF r.exc # "none" THEN r
  ELSE ProcessIntegrationsFrom(r.tree, integs, invoke_arns, i)

ProcessIntegrationsFrom(tree, integs, invoke_arns, i) ==
  IF i > Min(Len(integs), Len(invoke_arns)) THEN Ok(tree)
  ELSE IntegrationsAfter(IntegrationStep(tree, integs[i], invoke_arns[i]),
                         integs, invoke_arns, i + 1)

process_integrations(tree, integs, invoke_arns) ==
  ProcessIntegrationsFrom(tree, integs, invoke_arns, 1)

\* The patch methods the class and its base define, with the number of
\* positional arguments each takes besides self.
PatchMethodArity ==
  [process_authorizers |-> 2, process_integrations |-> 2]

\* editor.<method>(*args): an undefined method is an AttributeError, a wrong
\* number of arguments a TypeError raised before the body runs.
Invoke(tree, method, args) ==
  IF method \notin DOMAIN PatchMethodArity THEN Raise(tree, "AttributeError")
  ELSE IF Len(args) # PatchMethodArity[method] THEN Raise(tree, "TypeError")
  ELSE CASE method = "process_integrations" ->
              process_integrations(tree, args[1], args[2])
         [] method = "process_authorizers" ->
              process_authorizers(tree, args[1], args[2])

\* get_function_names / to_yaml are used by the build below.

\* Every mapping key of the modelled documents, in the order yaml.dump sorts
\* them (sort_keys defaults to true: plain string order).
SortedKeys ==
  << "/greet", "/missing", "/token", "GET", "POST", "a", "auth",
     "auth2", "authorizerResultTtlInSeconds", "authorizerUri", "basic",
     "components", "description", "functionName", "get", "httpMethod",
     "identitySource", "identityValidationExpression", "in", "info",
     "major", "name", "openapi", "parameters", "paths", "post",
     "responses", "securitySchemes", "servers", "summary", "tags",
     "title", "type", "uri", "version",
     "x-amazon-apigateway-authorizer", "x-amazon-apigateway-authtype",
     "x-amazon-apigateway-integration", "x-function-name", "x-internal" >>

\* to_yaml(): the text of yaml.dump(openapi_spec) as a token sequence, a
\* mapping's keys in sorted order whatever their insertion order.  An Output
\* object is dumped as a python object tag, not as the string it resolves to.
RECURSIVE ToYaml(_)
RECURSIVE ToYamlEntries(_, _)
KeysInOrder(m) == SelectSeq(SortedKeys, LAMBDA k : HasKey(m, k))

ToYamlEntries(m, i) ==
  IF i > Len(KeysInOrder(m)) THEN <<>>
  ELSE <<KeysInOrder(m)[i], ":">> \o ToYaml(Get(m, KeysInOrder(m)[i]))
       \o ToYamlEntries(m, i + 1)

\* The modelled strings a plain scalar of which YAML reads as a number or as
\* null: yaml.dump writes such a string in quotes.
NotPlainStrings == {"1", "2", "1.0", "2.0", "null", ""}

\* A string written without quotes whatever it reads as.
StrTokensPlain(s) == <<s>>

\* The tokens yaml.dump writes for a string.
StrTokens(s) == IF s \in NotPlainStrings THEN <<"'", s, "'">> ELSE <<s>>

\* The tag yaml.dump writes for an object that is no YAML value.
ObjectTag == "!!python/object:pulumi.output.Output"

RECURSIVE ToYamlItems(_, _)
ToYamlItems(q, i) ==
  IF i > Len(q) THEN <<>> ELSE ToYaml(q[i]) \o ToYamlItems(q, i + 1)

ToYaml(n) ==
  CASE n.t = "map" -> <<"{">> \o ToYamlEntries(n, 1) \o <<"}">>
    [] n.t = "seq" -> <<"[">> \o ToYamlItems(n.q, 1) \o <<"]">>
    [] n.t = "str" -> StrTokens(n.s)
    [] n.t = "int" -> <<ToString(n.i)>>
    [] n.t = "none" -> <<"null">>
    [] n.t = "output" -> <<ObjectTag>>

to_yaml(tree) == ToYaml(tree)

\* ----------------------------------------------------- Python slicing

\* A slice bound as Python normalises it for a sequence of length len.
PyIndex(len, i) == IF i < 0 THEN Max(0, len + i) ELSE Min(i, len)

\* s[lo:hi], s[:hi], s[lo:] and s[-1]
PySlice(s, lo, hi) == SubSeq(s, PyIndex(Len(s), lo) + 1, PyIndex(Len(s), hi))
PySliceTo(s, hi) == SubSeq(s, 1, PyIndex(Len(s), hi))
PySliceFrom(s, lo) == SubSeq(s, PyIndex(Len(s), lo) + 1, Len(s))
PyLast(s) == s[Len(s)]

\* ------------------------------------------------------------- RestAPI

\* The objects are not followed by identity.
NoHeap == [objs |-> <<>>, root |-> 0]

\* No CDN and no SiteOrigin has been constructed.
NoCdn == [stage |-> "New"]

VARIABLES
  integrations,      \* self.integrations
  token_validators,  \* self.token_validators
  content,           \* self.content
  merged,            \* the tree the editor held right after construction
  editor,            \* self.editor.openapi_spec
  before,            \* the tree before the latest patch call (history)
  outputs,           \* each resource's outputs: pending, resolved or failed
  state,             \* the coordinator's state
  gathered,          \* the list Output.all resolved to
  runs,              \* how many times build_api (Spec), a direct patch call
                     \* (EditorSpec) or a call on the constructed editor
                     \* (StoreSpec) has been entered (history)
  calls,             \* the calls the latest such run made (in StoreSpec the
                     \* latest call, the constructor's included), with the
                     \* exception each raised (history)
  rest_api,          \* self.rest_api: the created gateway resource
  permissions,       \* the Lambda permissions created, in order
  deployed,          \* the Deployment and Stage exist
  rest_api_id,       \* self.rest_api_id
  sources,           \* the spec sources loaded into the tree so far, in
                     \* order (history)
  supplied,          \* the objects the caller holds, each with the value
                     \* the caller left it with (OwnerSpec)
  heap,              \* the dicts and lists by identity (OwnerSpec), and
                     \* the one openapi_spec refers to
  cdn                \* a CDN or SiteOrigin under construction

vars == << integrations, token_validators, content, merged, editor, before,
           outputs, state, gathered, runs, calls, rest_api, permissions,
           deployed, rest_api_id, sources, supplied, heap, cdn >>

\* The documents and declarations the model draws from.
Operation(summary) == MapOf(<< <<"summary", Str(summary)>> >>)

BaseSpec ==
  MapOf(<< <<"openapi", Str("3.0.3")>>,
           <<"info", MapOf(<< <<"title", Str("api")>>, <<"version", Str("1.0.0")>> >>)>>,
           <<"paths", MapOf(<<
               <<"/greet", MapOf(<< <<"get", Operation("greet")>> >>)>>,
               <<"/token", MapOf(<< <<"post", Operation("token")>> >>)>> >>)>> >>)

\* The same document with a security scheme already declared.
SpecWithScheme ==
  Put(BaseSpec, "components",
      MapOf(<< <<"securitySchemes",
                 MapOf(<< <<"auth", MapOf(<< <<"type", Str("http")>> >>)>> >>)>> >>))

IntegrationChoices ==
  { [path |-> "/greet", method |-> "GET", function |-> FnA],
    [path |-> "/token", method |-> "post", function |-> FnB],
    [path |-> "/greet", method |-> "get", function |-> FnB],
    [path |-> "/missing", method |-> "get", function |-> FnA] }

ValidatorChoices ==
  { [name |-> "auth", type |-> "token", function |-> FnA],
    [name |-> "auth2", type |-> "token", function |-> FnB],
    [name |-> "basic", type |-> "request", function |-> FnB] }

ContentChoices == { [bucket_name |-> "site"] }

\* __init__, lines 66-78 and 99-100: the Outputs handed to Output.all, in order.
integration_arns(integ) == [i \in DOMAIN integ |-> invoke_arn(integ[i].function)]
integration_function_names(integ) == [i \in DOMAIN integ |-> function_name(integ[i].function)]
token_validator_arns(vals) == [i \in DOMAIN vals |-> invoke_arn(vals[i].function)]
token_validator_function_names(vals) == [i \in DOMAIN vals |-> function_name(vals[i].function)]

all_arns(integ, vals) ==
  integration_arns(integ) \o token_validator_arns(vals) \o <<gateway_role_arn>>
all_function_names(integ, vals) ==
  integration_function_names(integ) \o token_validator_function_names(vals)

\* Output.all(*all_arns, *all_function_names)
Submitted(integ, vals) == all_arns(integ, vals) \o all_function_names(integ, vals)

\* A barrier that opens on the first resolved Output.
AnyResolved(outs, handles) ==
  \E i \in DOMAIN handles : outs[handles[i].res] = "resolved"

\* A barrier that takes a failed Output for a settled one.
NonePending(outs, handles) ==
  \A i \in DOMAIN handles : outs[handles[i].res] # "pending"

\* The barrier: Output.all resolves once every Output handed to it has.
AllResolved(outs, handles) ==
  \A i \in DOMAIN handles : outs[handles[i].res] = "resolved"

\* Output.all fails when one of its Outputs fails.
SomeFailed(outs, handles) ==
  \E i \in DOMAIN handles : outs[handles[i].res] = "failed"

\* The lambda of line 103: the gathered list cut at len(all_arns).
SplitArns(arns_and_names, n_arns) == PySliceTo(arns_and_names, n_arns)
SplitNames(arns_and_names, n_arns) == PySliceFrom(arns_and_names, n_arns)

\* _build, lines 124-134: the argument slices of the three patch calls.
IntegrationArnGroup(invoke_arns, m) == PySliceTo(invoke_arns, m)
IntegrationNameGroup(function_names, m) == PySliceTo(function_names, m)
ValidatorArnGroup(invoke_arns, m) == PySliceFrom(invoke_arns, m)
ValidatorNameGroup(function_names, m) == PySlice(function_names, m, -1)
ContentArn(invoke_arns) == PyLast(invoke_arns)

\* One patch call of _build and its record in the history.
Logged(r, method, args) ==
  [tree |-> r.tree, exc |-> r.exc,
   calls |-> <<[method |-> method, args |-> args, exc |-> r.exc]>>]

PatchCall(tree, method, args) == Logged(Invoke(tree, method, args), method, args)

\* The next patch call of _build, made unless an earlier one raised.
AfterCalls(earlier, p) == [p EXCEPT !.calls = earlier \o p.calls]

ThenCall(p, method, args) ==
  IF p.exc # "none" THEN p
  ELSE AfterCalls(p.calls, PatchCall(p.tree, method, args))

\* _build, lines 124-134: the three patch calls in order; an exception ends it.
BuildPatches(tree, integ, vals, cont, invoke_arns, function_names) ==
  ThenCall(
    ThenCall(
      PatchCall(tree, "process_integrations",
                <<integ, IntegrationArnGroup(invoke_arns, Len(integ)),
                  IntegrationNameGroup(function_names, Len(integ))>>),
      "process_token_validators",
      <<vals, ValidatorArnGroup(invoke_arns, Len(integ)),
        ValidatorNameGroup(function_names, Len(integ))>>),
    "process_content",
    <<cont, ContentArn(invoke_arns)>>)

\* _create_lambda_permissions: one permission per distinct name, first
\* occurrence first.
RECURSIVE CreateLambdaPermissions(_, _)
CreateLambdaPermissions(function_names, permission_names) ==
  IF function_names = <<>> THEN permission_names
  ELSE CreateLambdaPermissions(
         Tail(function_names),
         IF \E i \in DOMAIN permission_names : permission_names[i] = Head(function_names)
         THEN permission_names
         ELSE Append(permission_names, Head(function_names)))

NoRestApi == [created |-> FALSE]
RestApiId == "rest-api-id"

\* _build(invoke_arns, function_names): the patches, then the RestApi resource
\* with the serialized tree as its body, the permissions, the deployment and
\* the stage.  An exception leaves what was done before it.
Provision(p, function_names) ==
  IF p.exc # "none"
  THEN [tree |-> p.tree, exc |-> p.exc, calls |-> p.calls,
        rest_api |-> NoRestApi, permissions |-> <<>>, deployed |-> FALSE]
  ELSE [tree |-> p.tree, exc |-> "none", calls |-> p.calls,
        rest_api |-> [created |-> TRUE, body |-> to_yaml(p.tree)],
        permissions |-> CreateLambdaPermissions(function_names, <<>>),
        deployed |-> TRUE]

Build(tree, integ, vals, cont, invoke_arns, function_names) ==
  Provision(BuildPatches(tree, integ, vals, cont, invoke_arns, function_names),
            function_names)

\* -------------------------------------------------------- Spec: a build

\* The state after RestAPI.__init__ returns: the spec is merged, the Outputs
\* are handed to Output.all and nothing has resolved.
Init ==
  /\ integrations \in SeqsUpTo(IntegrationChoices, MaxIntegrations)
  /\ token_validators \in SeqsUpTo(ValidatorChoices, MaxValidators)
  /\ content \in SeqsUpTo(ContentChoices, MaxContent)
  /\ merged = BaseSpec
  /\ editor = merged
  /\ before = merged
  /\ outputs = [r \in Resources |-> "pending"]
  /\ state = "Pending"
  /\ gathered = <<>>
  /\ runs = 0
  /\ calls = <<>>
  /\ rest_api = NoRestApi
  /\ permissions = <<>>
  /\ deployed = FALSE
  /\ rest_api_id = [status |-> "pending"]
  /\ sources = <<>>
  /\ supplied = <<>>
  /\ heap = NoHeap
  /\ cdn = NoCdn

\* The provisioning engine creates a resource: its outputs resolve.
Resolve(r) ==
  /\ outputs[r] = "pending"
  /\ outputs' = [outputs EXCEPT ![r] = "resolved"]
  /\ UNCHANGED << supplied, heap, cdn, sources, integrations, token_validators, content, merged, editor, before,
                  state, gathered, runs, calls, rest_api, permissions, deployed,
                  rest_api_id >>

\* The provisioning engine fails to create a resource: its outputs fail.
Fail(r) ==
  /\ outputs[r] = "pending"
  /\ outputs' = [outputs EXCEPT ![r] = "failed"]
  /\ UNCHANGED << supplied, heap, cdn, sources, integrations, token_validators, content, merged, editor, before,
                  state, gathered, runs, calls, rest_api, permissions, deployed,
                  rest_api_id >>

\* Output.all(...) resolves to the list of the values, in the order submitted.
OutputAll ==
  /\ state = "Pending"
  /\ AllResolved(outputs, Submitted(integrations, token_validators))
  /\ gathered' = [i \in DOMAIN Submitted(integrations, token_validators) |->
                    ResolvedValue(Submitted(integrations, token_validators)[i])]
  /\ state' = "AllResolved"
  /\ UNCHANGED << supplied, heap, cdn, sources, integrations, token_validators, content, merged, editor, before,
                  outputs, runs, calls, rest_api, permissions, deployed, rest_api_id >>

\* Output.all(...) fails: apply never calls the lambda and rest_api_id fails.
OutputAllFails ==
  /\ state = "Pending"
  /\ SomeFailed(outputs, Submitted(integrations, token_validators))
  /\ state' = "ResolutionFailed"
  /\ rest_api_id' = [status |-> "failed", cause |-> "ResolutionFailed"]
  /\ UNCHANGED << supplied, heap, cdn, sources, integrations, token_validators, content, merged, editor, before,
                  outputs, gathered, runs, calls, rest_api, permissions, deployed >>

\* .apply(lambda arns_and_names: build_api(...)): the continuation, run with
\* the gathered list; build_api calls _build and returns rest_api.id.
\* build_api(invoke_arns, function_names): _build, then rest_api.id
build_api(invoke_arns, function_names) ==
  Build(editor, integrations, token_validators, content, invoke_arns, function_names)

\* What the continuation leaves, b being the outcome of build_api.
Continuation(b) ==
  /\ before' = editor
  /\ editor' = b.tree
  /\ calls' = b.calls
  /\ rest_api' = b.rest_api
  /\ permissions' = b.permissions
  /\ deployed' = b.deployed
  /\ state' = IF b.exc = "none" THEN "Built" ELSE "BuildError"
  /\ rest_api_id' = IF b.exc = "none"
                    THEN [status |-> "resolved", id |-> RestApiId]
                    ELSE [status |-> "failed", cause |-> b.exc]

Apply ==
  /\ state = "AllResolved"
  /\ Continuation(build_api(
       SplitArns(gathered, Len(all_arns(integrations, token_validators))),
       SplitNames(gathered, Len(all_arns(integrations, token_validators)))))
  /\ runs' = runs + 1
  /\ UNCHANGED << supplied, heap, cdn, sources, integrations, token_validators, content, merged, outputs, gathered >>

Next ==
  \/ \E r \in Resources : Resolve(r)
  \/ \E r \in Resources : Fail(r)
  \/ OutputAll
  \/ OutputAllFails
  \/ Apply

Spec == Init /\ [][Next]_vars

\* ------------------------------------- EditorSpec: direct patch calls

\* The resolved values a caller passes, aligned with the declarations.
ResolvedArns(decls) == [i \in DOMAIN decls |-> LambdaInvokeArn(decls[i].function)]
ResolvedNames(decls) == [i \in DOMAIN decls |-> LambdaName(decls[i].function)]

\* An editor constructed from a document; no build is under way.
EditorInit ==
  /\ merged \in {BaseSpec, SpecWithScheme}
  /\ editor = merged
  /\ before = merged
  /\ integrations = <<>>
  /\ token_validators = <<>>
  /\ content = <<>>
  /\ outputs = [r \in Resources |-> "resolved"]
  /\ state = "Editor"
  /\ gathered = <<>>
  /\ runs = 0
  /\ calls = <<>>
  /\ rest_api = NoRestApi
  /\ permissions = <<>>
  /\ deployed = FALSE
  /\ rest_api_id = [status |-> "pending"]
  /\ sources = <<>>
  /\ supplied = <<>>
  /\ heap = NoHeap
  /\ cdn = NoCdn

\* What a direct call leaves, p being the outcome of the patch call.
Direct(p) ==
  /\ runs < MaxCalls
  /\ before' = editor
  /\ editor' = p.tree
  /\ calls' = p.calls
  /\ runs' = runs + 1
  /\ UNCHANGED << supplied, heap, cdn, sources, integrations, token_validators, content, merged, outputs, state,
                  gathered, rest_api, permissions, deployed, rest_api_id >>

\* editor.process_integrations(integrations, invoke_arns), and the call with
\* the resolved names as a third argument that _build makes.
CallProcessIntegrations ==
  \E integ \in SeqsUpTo(IntegrationChoices, MaxIntegrations) :
    \E args \in { <<integ, ResolvedArns(integ)>>,
                  <<integ, ResolvedArns(integ), ResolvedNames(integ)>> } :
      Direct(PatchCall(editor, "process_integrations", args))

\* editor.process_authorizers(authorizers, invoke_arns)
CallProcessAuthorizers ==
  \E auths \in SeqsUpTo(ValidatorChoices, MaxValidators) :
    Direct(PatchCall(editor, "process_authorizers", <<auths, ResolvedArns(auths)>>))

\* editor.process_token_validators(...) and editor.process_content(...), the
\* other two calls of _build.
CallProcessTokenValidators ==
  \E vals \in SeqsUpTo(ValidatorChoices, MaxValidators) :
    Direct(PatchCall(editor, "process_token_validators",
                     <<vals, ResolvedArns(vals), ResolvedNames(vals)>>))

CallProcessContent ==
  \E cont \in SeqsUpTo(ContentChoices, MaxContent) :
    Direct(PatchCall(editor, "process_content", <<cont, GatewayRoleArn>>))

EditorNext ==
  \/ CallProcessIntegrations
  \/ CallProcessAuthorizers
  \/ CallProcessTokenValidators
  \/ CallProcessContent

EditorSpec == EditorInit /\ [][EditorNext]_vars

\* ------------------------------------------ Spec Store: load and merge

\* A sequence node (a Python list) and the scalars of the documents below.
SeqNode(q) == [t |-> "seq", q |-> q]
IsSeq(n) == n.t = "seq"

\* _deep_merge(source, destination): source's entries in order, each written
\* into destination; both are mappings.
RECURSIVE deep_merge(_, _)
RECURSIVE DeepMergeFrom(_, _, _)

\* A merge in which a value the destination already holds wins a conflict.
MergedValueFirstWins(value, destination, key) ==
  IF IsMap(value) /\ IsMap(Get(destination, key))
  THEN deep_merge(value, Get(destination, key))
  ELSE IF IsSeq(value)
  THEN IF value.q = <<>> THEN value
       ELSE IF HasKey(destination, key) /\ IsSeq(Get(destination, key))
       THEN SeqNode(Get(destination, key).q \o value.q)
       ELSE value
  ELSE IF HasKey(destination, key) THEN Get(destination, key) ELSE value

\* A merge in which a non-empty incoming sequence replaces the destination's.
MergedValueSeqReplaces(value, destination, key) ==
  IF IsMap(value) /\ IsMap(Get(destination, key))
  THEN deep_merge(value, Get(destination, key))
  ELSE value

\* The value _deep_merge leaves at destination[key] for an incoming value.
MergedValue(value, destination, key) ==
  IF IsMap(value) /\ IsMap(Get(destination, key))
  THEN deep_merge(value, Get(destination, key))
  ELSE IF IsSeq(value)
  THEN IF value.q = <<>> THEN value
       ELSE IF HasKey(destination, key) /\ IsSeq(Get(destination, key))
       THEN SeqNode(Get(destination, key).q \o value.q)
       ELSE value
  ELSE value

DeepMergeFrom(source, destination, i) ==
  IF i > Len(source.e) THEN destination
  ELSE DeepMergeFrom(source,
                     Put(destination, source.e[i].k,
                         MergedValue(source.e[i].n, destination, source.e[i].k)),
                     i + 1)

\* A merge that starts from an empty mapping instead of the destination.
DeepMergeIntoEmpty(source, destination) == DeepMergeFrom(source, EmptyMap, 1)

deep_merge(source, destination) == DeepMergeFrom(source, destination, 1)

\* "self.openapi_spec = self._deep_merge(new_spec_dict, self.openapi_spec)":
\* a loaded value that is no mapping has no items().
MergeLoaded(tree, new_spec_dict) ==
  IF ~IsMap(new_spec_dict) THEN Raise(tree, "AttributeError")
  ELSE Ok(deep_merge(new_spec_dict, tree))

\* What loading a text gives: the parsed value, or the parser's error.
YamlError == [t |-> "error"]
Loaded(value) == [value |-> value, exc |-> IF value = YamlError THEN "YAMLError" ELSE "none"]
Unloaded(e) == [value |-> None, exc |-> e]

\* A spec source.  A text is a YAML payload or the path of a file; parsed is
\* what parsing the payload (or the file's content) gives.
Payload(parsed) ==
  [k |-> "text", isfile |-> FALSE, ext |-> "", path |-> "", parsed |-> parsed]
File(path, ext, parsed) ==
  [k |-> "text", isfile |-> TRUE, ext |-> ext, path |-> path, parsed |-> parsed]
Dict(doc) == [k |-> "dict", doc |-> doc]
IntValue == [k |-> "int"]
NoneValue == [k |-> "none"]
ListOf(items) == [k |-> "list", items |-> items]

\* os.path.isfile(spec) and (spec.endswith(".yaml") or spec.endswith(".yml"))
IsYamlFile(text) == text.isfile /\ text.ext \in {"yaml", "yml"}

\* yaml.safe_load(spec) on the string itself: a payload parses to its
\* content, a file path is a plain scalar.
yaml_safe_load(text) == Loaded(IF text.isfile THEN Str(text.path) ELSE text.parsed)

\* _load_openapi_spec(): the file self.file_name parsed by its extension.
load_openapi_spec(text) ==
  IF text.ext \in {"yaml", "yml"} THEN Loaded(text.parsed)
  ELSE IF text.ext = "json" THEN Loaded(text.parsed)
  ELSE Unloaded("ValueError")

\* The merge that ends _merge_spec and merge_with, l being what was loaded.
MergeIfLoaded(tree, l) ==
  IF l.exc # "none" THEN Raise(tree, l.exc) ELSE MergeLoaded(tree, l.value)

\* _merge_spec(spec): os.path.isfile takes a path or a descriptor (a mapping
\* or None is a TypeError), an int has no endswith and no read.
merge_spec(tree, spec) ==
  CASE spec.k = "text" ->
         MergeIfLoaded(tree, IF IsYamlFile(spec) THEN load_openapi_spec(spec)
                             ELSE yaml_safe_load(spec))
    [] spec.k = "int" -> Raise(tree, "AttributeError")
    [] OTHER -> Raise(tree, "TypeError")

\* "for individual_spec in spec: self._merge_spec(individual_spec)"
RECURSIVE MergeSpecsFrom(_, _, _)

\* The loop after a turn whose outcome is r.
MergeSpecsAfter(r, items, i) ==
  IF r.exc # "none" THEN r ELSE MergeSpecsFrom(r.tree, items, i)

MergeSpecsFrom(tree, items, i) ==
  IF i > Len(items) THEN Ok(tree)
  ELSE MergeSpecsAfter(merge_spec(tree, items[i]), items, i + 1)

\* OpenAPISpecEditor.__init__(spec), openapi_spec starting as {}
OpenAPISpecEditor(spec) ==
  CASE spec.k = "dict" -> Ok(spec.doc)
    [] spec.k = "list" -> MergeSpecsFrom(EmptyMap, spec.items, 1)
    [] spec.k = "text" -> merge_spec(EmptyMap, spec)
    [] OTHER -> Raise(EmptyMap, "ValueError")

\* A merge_with in which the tree is merged into the new document's values.
MergeWithTreeWins(tree, new_spec) ==
  CASE new_spec.k = "dict" -> Ok(deep_merge(tree, new_spec.doc))
    [] new_spec.k = "text" ->
         IF IsYamlFile(new_spec) \/ ~new_spec.isfile
         THEN (IF IsMap(new_spec.parsed) THEN Ok(deep_merge(tree, new_spec.parsed))
               ELSE Raise(tree, "AttributeError"))
         ELSE Raise(tree, "AttributeError")
    [] OTHER -> Raise(tree, "ValueError")

\* merge_with(new_spec)
merge_with(tree, new_spec) ==
  CASE new_spec.k = "dict" -> MergeLoaded(tree, new_spec.doc)
    [] new_spec.k = "text" ->
         MergeIfLoaded(tree, IF IsYamlFile(new_spec) THEN Loaded(new_spec.parsed)
                             ELSE yaml_safe_load(new_spec))
    [] OTHER -> Raise(tree, "ValueError")

\* ---------------------------------- StoreSpec: an editor and its calls

\* The documents the sources hold.
DocFirst ==
  MapOf(<< <<"openapi", Str("3.0.0")>>,
           <<"info", MapOf(<< <<"title", Str("api")>>, <<"version", Str("1.0")>> >>)>>,
           <<"tags", SeqNode(<<Str("a")>>)>> >>)

DocSecond ==
  MapOf(<< <<"tags", SeqNode(<<Str("b"), Str("a")>>)>>,
           <<"info", MapOf(<< <<"version", Str("2.0")>>, <<"description", None>> >>)>>,
           <<"openapi", Str("3.0.3")>> >>)

DocClear ==
  MapOf(<< <<"tags", SeqNode(<<>>)>>, <<"info", Str("version 2.0")>> >>)

DocNested ==
  MapOf(<< <<"info", MapOf(<< <<"version", MapOf(<< <<"major", Str("2")>> >>)>> >>)>>,
           <<"servers", SeqNode(<<Str("s")>>)>> >>)

DocPaths ==
  MapOf(<< <<"paths", MapOf(<<
               <<"/greet", MapOf(<< <<"get", Operation("greet")>>,
                                    <<"parameters", SeqNode(<<Str("p")>>)>> >>)>> >>)>>,
           <<"tags", MapOf(<< <<"a", Str("x")>> >>)>> >>)

DocChoices == {DocFirst, DocSecond, DocClear, DocNested, DocPaths}

\* Texts: payloads that parse to a document, to a sequence, to a scalar, to
\* nothing, or not at all, and files of each extension.
TextChoices ==
  {Payload(d) : d \in DocChoices}
    \cup { Payload(SeqNode(<<Str("a")>>)), Payload(Str("text")), Payload(None),
           Payload(YamlError),
           File("first.yaml", "yaml", DocFirst), File("second.yml", "yml", DocSecond),
           File("first.json", "json", DocFirst), File("first.txt", "txt", DocFirst) }

\* The items a list of sources is made of.
ListItemChoices ==
  { Payload(DocFirst), Payload(DocClear), File("second.yml", "yml", DocSecond),
    IntValue, Dict(DocFirst) }

\* What a caller may hand to the constructor or to merge_with.
SourceChoices ==
  TextChoices \cup {Dict(d) : d \in DocChoices} \cup {IntValue, NoneValue}
    \cup {ListOf(items) : items \in SeqsUpTo(ListItemChoices, MaxFragments)}

MergeChoices ==
  TextChoices \cup {Dict(DocNested), Dict(DocClear), IntValue}

KeyPathChoices ==
  { <<"info", "version">>, <<"info", "version", "major">>, <<"info", "description">>,
    <<"tags", "a">>, <<"components", "securitySchemes">>, <<"paths", "/greet", "get">> }

\* get_spec_part's arguments: every key path, and two with create set.
GetSpecPartChoices ==
  {<<keys, FALSE>> : keys \in KeyPathChoices}
    \cup { << <<"info", "version">>, TRUE >>,
           << <<"components", "securitySchemes">>, TRUE >> }

PathChoices == {"/greet", "/missing"}
MethodChoices == {"GET", "get", "post", "parameters"}

\* No editor yet: openapi_spec is the {} the constructor starts from.
StoreInit ==
  /\ state = "New"
  /\ editor = EmptyMap
  /\ merged = EmptyMap
  /\ before = EmptyMap
  /\ sources = <<>>
  /\ supplied = <<>>
  /\ heap = NoHeap
  /\ cdn = NoCdn
  /\ integrations = <<>>
  /\ token_validators = <<>>
  /\ content = <<>>
  /\ outputs = [r \in Resources |-> "resolved"]
  /\ gathered = <<>>
  /\ runs = 0
  /\ calls = <<>>
  /\ rest_api = NoRestApi
  /\ permissions = <<>>
  /\ deployed = FALSE
  /\ rest_api_id = [status |-> "pending"]

\* The record of a call: its method, arguments, exception and return value.
CallRecord(method, args, exc, ret) ==
  <<[method |-> method, args |-> args, exc |-> exc, ret |-> ret]>>

StoreUnchanged ==
  UNCHANGED << supplied, heap, cdn, integrations, token_validators, content,
               outputs, gathered, rest_api, permissions, deployed, rest_api_id >>

\* OpenAPISpecEditor(spec), r being the constructor's outcome: a constructor
\* that raises leaves no editor to call.
Constructed(r, spec) ==
  /\ state = "New"
  /\ before' = editor
  /\ editor' = r.tree
  /\ merged' = r.tree
  /\ state' = IF r.exc = "none" THEN "Editor" ELSE "ConstructError"
  /\ sources' = IF r.exc = "none" THEN <<spec>> ELSE sources
  /\ calls' = CallRecord("__init__", <<spec>>, r.exc, None)
  /\ runs' = runs
  /\ StoreUnchanged

Construct == \E spec \in SourceChoices : Constructed(OpenAPISpecEditor(spec), spec)

\* A call on the editor that leaves the tree r.tree.
Called(r, method, args, ret) ==
  /\ state = "Editor"
  /\ runs < MaxCalls
  /\ before' = editor
  /\ editor' = r.tree
  /\ calls' = CallRecord(method, args, r.exc, ret)
  /\ runs' = runs + 1
  /\ UNCHANGED << merged, state >>
  /\ StoreUnchanged

\* editor.merge_with(new_spec), which returns the editor
Merged(r, new_spec) ==
  /\ Called(r, "merge_with", <<new_spec>>, IF r.exc = "none" THEN Str("self") ELSE None)
  /\ sources' = IF r.exc = "none" THEN Append(sources, new_spec) ELSE sources

MergeWith == \E new_spec \in MergeChoices : Merged(merge_with(editor, new_spec), new_spec)

\* editor.get_or_create_spec_part(keys, create), which returns the part
GetOrCreated(r, keys, create) ==
  /\ Called(r, "get_or_create_spec_part", <<keys, create>>,
            IF r.exc = "none" THEN GetPath(r.tree, keys) ELSE None)
  /\ UNCHANGED sources

GetOrCreateSpecPart ==
  \E keys \in KeyPathChoices, create \in BOOLEAN :
    GetOrCreated(get_or_create_spec_part(editor, keys, create), keys, create)

\* editor.get_spec_part(keys, create): the tree is the one the walk leaves
Got(g, tree, keys, create) ==
  /\ Called([tree |-> tree, exc |-> g.exc], "get_spec_part", <<keys, create>>, g.ret)
  /\ UNCHANGED sources

GetSpecPart ==
  \E a \in GetSpecPartChoices :
    Got(get_spec_part(editor, a[1], a[2]),
        get_or_create_spec_part(editor, a[1], FALSE).tree, a[1], a[2])

\* editor.get_operation(path, method), which returns operations[method]
GotOperation(exc, path, method) ==
  /\ Called([tree |-> editor, exc |-> exc], "get_operation", <<path, method>>,
            IF exc = "none" THEN GetPath(editor, OperationKeys(path, method)) ELSE None)
  /\ UNCHANGED sources

GetOperation ==
  \E path \in PathChoices, method \in MethodChoices :
    GotOperation(get_operation(editor, path, method), path, method)

StoreNext ==
  \/ Construct
  \/ MergeWith
  \/ GetOrCreateSpecPart
  \/ GetSpecPart
  \/ GetOperation

StoreSpec == StoreInit /\ [][StoreNext]_vars

\* The latest run's first patch call, when it is a call of the given method.
LatestCallIs(method) == calls # <<>> /\ calls[1].method = method

\* ------------------------------------ OpsSpec: operations on a document

\* How many calls the caller makes on the editor in OpsSpec.
MaxOps == 3

\* add_operation(path, method, operation)
\* "path[method] = operation" on the part get_or_create_spec_part returned, r
\* being that call's outcome: only a mapping takes a string key.
SetOperation(r, path, method, operation) ==
  IF r.exc # "none" THEN r
  ELSE IF ~IsMap(GetPath(r.tree, <<"paths", path>>)) THEN Raise(r.tree, "TypeError")
  ELSE Ok(SetPath(r.tree, <<"paths", path, method>>, operation))

add_operation(tree, path, method, operation) ==
  SetOperation(get_or_create_spec_part(tree, <<"paths", path>>, TRUE),
               path, method, operation)

\* The modelled pairs of strings of which the first is a proper prefix of the
\* second, and those of which the first occurs inside the second.
PrefixPairs ==
  { <<"x-", "x-function-name">>, <<"x-", "x-internal">>,
    <<"x-", "x-amazon-apigateway-integration">>,
    <<"x-", "x-amazon-apigateway-authorizer">>,
    <<"x-", "x-amazon-apigateway-authtype">> }
InfixPairs == PrefixPairs \cup { <<"name", "x-function-name">> }

\* The patterns re.compile takes.
IsRegex(pattern) == pattern # "("

\* A match found anywhere in the key.
re_search(pattern, key) == key = pattern \/ <<pattern, key>> \in InfixPairs

\* compiled_pattern.match(key) for a pattern of literal characters: the match
\* starts at the start of the key and may end before its end.
re_match(pattern, key) == key = pattern \/ <<pattern, key>> \in PrefixPairs

\* remove_matching_keys(data): a new mapping without the matching keys, a new
\* list of the cleaned items, any other value as it is.
RECURSIVE remove_matching_keys(_, _)
RECURSIVE RemoveEntriesFrom(_, _, _)
RemoveEntriesFrom(pattern, entries, i) ==
  IF i > Len(entries) THEN <<>>
  ELSE (IF re_match(pattern, entries[i].k) THEN <<>>
        ELSE <<[k |-> entries[i].k, n |-> remove_matching_keys(pattern, entries[i].n)]>>)
       \o RemoveEntriesFrom(pattern, entries, i + 1)

remove_matching_keys(pattern, data) ==
  CASE data.t = "map" -> [t |-> "map", e |-> RemoveEntriesFrom(pattern, data.e, 1)]
    [] data.t = "seq" ->
         SeqNode([i \in DOMAIN data.q |-> remove_matching_keys(pattern, data.q[i])])
    [] OTHER -> data

\* remove_attributes_by_pattern(pattern): re.compile raises re.error on what
\* is no pattern.
remove_attributes_by_pattern(tree, pattern) ==
  IF ~IsRegex(pattern) THEN Raise(tree, "error")
  ELSE Ok(remove_matching_keys(pattern, tree))

\* bool(value), as "if paths:" and "if function_name:" take it
Truthy(n) ==
  CASE n.t = "map" -> n.e # <<>>
    [] n.t = "seq" -> n.q # <<>>
    [] n.t = "str" -> n.s # ""
    [] n.t = "int" -> n.i # 0
    [] n.t = "none" -> FALSE
    [] OTHER -> TRUE

\* "for _, operation in methods.items(): function_name =
\* operation.get("x-function-name"); if function_name: append", from the i-th
\* member on: a member that is no mapping has no get.
RECURSIVE NamesIn(_, _, _)
NamesIn(members, i, names) ==
  IF i > Len(members.e) THEN Returned(names)
  ELSE IF ~IsMap(members.e[i].n) THEN Raised("AttributeError")
  ELSE NamesIn(members, i + 1,
               IF Truthy(Get(members.e[i].n, "x-function-name"))
               THEN Append(names, Get(members.e[i].n, "x-function-name"))
               ELSE names)

\* "for _, methods in paths.items()", from the i-th path on: a path item that
\* is no mapping has no items.
RECURSIVE NamesUnderPaths(_, _, _)
NamesAfterPath(r, paths, i) ==
  IF r.exc # "none" THEN r ELSE NamesUnderPaths(paths, i, r.ret)

NamesUnderPaths(paths, i, names) ==
  IF i > Len(paths.e) THEN Returned(names)
  ELSE IF ~IsMap(paths.e[i].n) THEN Raised("AttributeError")
  ELSE NamesAfterPath(NamesIn(paths.e[i].n, 1, names), paths, i + 1)

\* The first loop, paths being what get_spec_part(["paths"]) returned.
PathFunctionNames(paths) ==
  IF ~Truthy(paths) THEN Returned(<<>>)
  ELSE IF ~IsMap(paths) THEN Raised("AttributeError")
  ELSE NamesUnderPaths(paths, 1, <<>>)

\* The second loop, r being the outcome of the first and g that of
\* get_spec_part(["components", "securitySchemes"]).
SchemeFunctionNames(r, g) ==
  IF r.exc # "none" THEN r
  ELSE IF g.exc # "none" THEN Raised(g.exc)
  ELSE IF ~Truthy(g.ret) THEN r
  ELSE IF ~IsMap(g.ret) THEN Raised("AttributeError")
  ELSE NamesIn(g.ret, 1, r.ret)

\* get_function_names(): the list returned, or the exception raised
get_function_names(tree) ==
  SchemeFunctionNames(PathFunctionNames(get_spec_part(tree, <<"paths">>, FALSE).ret),
                      get_spec_part(tree, <<"components", "securitySchemes">>, FALSE))

\* yaml.safe_load on the text yaml.dump wrote.  A plain scalar reads as null,
\* as a number, or else as a string; a quoted one is a string.
IntTokens == {"0", "1", "2"}
FloatTokens == {"1.0", "2.0"}
IntOf(token) == CASE token = "0" -> 0 [] token = "1" -> 1 [] token = "2" -> 2

PlainScalar(token) ==
  CASE token = "null" -> None
    [] token \in IntTokens -> Num(IntOf(token))
    [] token \in FloatTokens -> [t |-> "float", s |-> token]
    [] OTHER -> Str(token)

\* The value a token sequence starts with, and the tokens after it.
RECURSIVE ParseValue(_)
RECURSIVE ParseEntries(_, _)
RECURSIVE ParseItems(_, _)
Rest(tokens, n) == SubSeq(tokens, n + 1, Len(tokens))
Parsed(node, rest) == [node |-> node, rest |-> rest]

EntriesAfter(v, key, entries) == ParseEntries(v.rest, Put(entries, key, v.node))
ItemsAfter(v, items) == ParseItems(v.rest, Append(items, v.node))

ParseEntries(tokens, entries) ==
  IF Head(tokens) = "}" THEN Parsed(entries, Tail(tokens))
  ELSE EntriesAfter(ParseValue(Rest(tokens, 2)), Head(tokens), entries)

ParseItems(tokens, items) ==
  IF Head(tokens) = "]" THEN Parsed(SeqNode(items), Tail(tokens))
  ELSE ItemsAfter(ParseValue(tokens), items)

ParseValue(tokens) ==
  CASE Head(tokens) = "{" -> ParseEntries(Tail(tokens), EmptyMap)
    [] Head(tokens) = "[" -> ParseItems(Tail(tokens), <<>>)
    [] Head(tokens) = "'" -> Parsed(Str(tokens[2]), Rest(tokens, 3))
    [] OTHER -> Parsed(PlainScalar(Head(tokens)), Tail(tokens))

\* yaml.safe_load(text): the safe loader constructs no python object.
safe_load_text(tokens) ==
  IF \E i \in DOMAIN tokens : tokens[i] = ObjectTag THEN YamlError
  ELSE ParseValue(tokens).node

\* The documents an editor of OpsSpec starts from.
DocPatched ==
  MapOf(<<
    <<"paths", MapOf(<<
       <<"/greet", MapOf(<<
          <<"get", MapOf(<< <<"summary", Str("greet")>>,
                            <<"x-function-name", Str("fn1")>>,
                            <<"functionName", Str("fn1")>>,
                            <<"parameters", SeqNode(<<
                                MapOf(<< <<"name", Str("q")>>,
                                         <<"x-internal", Str("1")>> >>) >>)>> >>)>>,
          <<"post", MapOf(<< <<"x-function-name", Str("fn2")>> >>)>> >>)>>,
       <<"/token", MapOf(<<
          <<"post", MapOf(<< <<"x-function-name", Str("fn1")>> >>)>>,
          <<"get", Operation("token")>> >>)>> >>)>>,
    <<"components", MapOf(<<
       <<"securitySchemes", MapOf(<<
          <<"auth", MapOf(<< <<"type", Str("apiKey")>>,
                             <<"x-function-name", Str("fn3")>> >>)>> >>)>> >>)>> >>)

OpsTreeChoices == {DocPatched, DocPaths, DocFirst, BaseSpec}
OpsPathChoices == {"/greet", "/missing"}
OpsMethodChoices == {"get", "GET"}
OperationChoices == {Operation("new"), MapOf(<< <<"x-function-name", Str("fn4")>> >>)}
AttributeChoices == {"x-function-name", "summary"}
ValueChoices == {Str("fn1"), Str("1"), Num(1), SeqNode(<<Str("a"), None>>)}
PatternChoices == {"x-", "name", "x-function-name", "("}
OpsIntegrationChoices == { <<[path |-> "/greet", method |-> "get", function |-> FnA]>> }

\* An editor constructed from a document.
OpsInit ==
  /\ state = "Editor"
  /\ merged \in OpsTreeChoices
  /\ editor = merged
  /\ before = merged
  /\ sources = <<>>
  /\ supplied = <<>>
  /\ heap = NoHeap
  /\ cdn = NoCdn
  /\ integrations = <<>>
  /\ token_validators = <<>>
  /\ content = <<>>
  /\ outputs = [r \in Resources |-> "resolved"]
  /\ gathered = <<>>
  /\ runs = 0
  /\ calls = <<>>
  /\ rest_api = NoRestApi
  /\ permissions = <<>>
  /\ deployed = FALSE
  /\ rest_api_id = [status |-> "pending"]

\* A call on the editor that leaves the tree r.tree: calls holds the latest
\* call, before the tree it found.
Operated(r, method, args, ret) ==
  /\ runs < MaxOps
  /\ before' = editor
  /\ editor' = r.tree
  /\ calls' = CallRecord(method, args, r.exc, ret)
  /\ runs' = runs + 1
  /\ UNCHANGED << merged, state, sources >>
  /\ StoreUnchanged

\* What a method that returns self returns.
SelfOrNone(r) == IF r.exc = "none" THEN Str("self") ELSE None

AddedOperation(r, path, method, operation) ==
  Operated(r, "add_operation", <<path, method, operation>>, SelfOrNone(r))

AddOperation ==
  \E path \in OpsPathChoices, method \in OpsMethodChoices, operation \in OperationChoices :
    AddedOperation(add_operation(editor, path, method, operation), path, method, operation)

AddedOperationAttribute(r, path, method, attribute, value) ==
  Operated(r, "add_operation_attribute", <<path, method, attribute, value>>, SelfOrNone(r))

AddOperationAttribute ==
  \E path \in OpsPathChoices, method \in OpsMethodChoices,
     attribute \in AttributeChoices, value \in ValueChoices :
    AddedOperationAttribute(add_operation_attribute(editor, path, method, attribute, value),
                            path, method, attribute, value)

RemovedAttributes(r, pattern) ==
  Operated(r, "remove_attributes_by_pattern", <<pattern>>, None)

RemoveAttributesByPattern ==
  \E pattern \in PatternChoices :
    RemovedAttributes(remove_attributes_by_pattern(editor, pattern), pattern)

GotFunctionNames(g) ==
  Operated([tree |-> editor, exc |-> g.exc], "get_function_names", <<>>, g.ret)

GetFunctionNames == GotFunctionNames(get_function_names(editor))

\* text = editor.to_yaml()
Dumped(text) == Operated(Ok(editor), "to_yaml", <<>>, text)

ToYamlCall == Dumped(to_yaml(editor))

\* OpenAPISpecEditor(text) on the text to_yaml just returned: from here on
\* editor is the new editor's tree, before the tree of the one that wrote the
\* text.
Reparsed(r, text) == Operated(r, "__init__", <<text>>, None)

Reparse ==
  /\ calls # <<>>
  /\ calls[1].method = "to_yaml"
  /\ Reparsed(OpenAPISpecEditor(Payload(safe_load_text(calls[1].ret))), calls[1].ret)

\* editor.process_integrations(integrations, invoke_arns), called with an
\* integration of /greet and the invoke ARN its function resolved to
PatchedIntegrations(r, integ, invoke_arns) ==
  Operated(r, "process_integrations", <<integ, invoke_arns>>, None)

ProcessIntegrations ==
  \E integ \in OpsIntegrationChoices :
    PatchedIntegrations(process_integrations(editor, integ, ResolvedArns(integ)),
                        integ, ResolvedArns(integ))

OpsNext ==
  \/ ProcessIntegrations
  \/ AddOperation
  \/ AddOperationAttribute
  \/ RemoveAttributesByPattern
  \/ GetFunctionNames
  \/ ToYamlCall
  \/ Reparse

OpsSpec == OpsInit /\ [][OpsNext]_vars

\* --------------------------- OwnerSpec: the tree and the caller's objects
\* Python holds a dict or a list by reference.  Here the objects live in a
\* heap: heap.objs[id] is a mapping or a sequence whose values are scalars or
\* references to other objects, heap.root is the object self.openapi_spec
\* refers to, and supplied lists the objects the caller holds.

Ref(id) == [t |-> "ref", id |-> id]
IsRef(v) == v.t = "ref"

\* The value a reference stands for, as a tree.
RECURSIVE TreeOf(_, _)
TreeOf(objs, v) ==
  IF ~IsRef(v) THEN v
  ELSE IF objs[v.id].t = "map"
  THEN [t |-> "map",
        e |-> [i \in DOMAIN objs[v.id].e |->
                 [k |-> objs[v.id].e[i].k, n |-> TreeOf(objs, objs[v.id].e[i].n)]]]
  ELSE SeqNode([i \in DOMAIN objs[v.id].q |-> TreeOf(objs, objs[v.id].q[i])])

\* A dict or list literal, and what a parser builds: new objects for the
\* mappings and sequences of a tree.  The outcome is the heap and the value.
RECURSIVE StoreTree(_, _)
RECURSIVE StoreEntries(_, _, _)
RECURSIVE StoreItems(_, _, _)
Stored(objs, v) == [v |-> v, objs |-> objs]
Allocated(s, t) ==
  Stored(Append(s.objs, IF t = "map" THEN [t |-> "map", e |-> s.v]
                        ELSE [t |-> "seq", q |-> s.v]),
         Ref(Len(s.objs) + 1))

\* held is what the earlier entries left, s what storing the next value left
WithEntry(held, s, key) == Stored(s.objs, Append(held, [k |-> key, n |-> s.v]))
WithItem(held, s) == Stored(s.objs, Append(held, s.v))
EntryStored(done, entry) == WithEntry(done.v, StoreTree(done.objs, entry.n), entry.k)
ItemStored(done, item) == WithItem(done.v, StoreTree(done.objs, item))

\* the first n entries of a mapping, stored in their order
StoreEntries(objs, entries, n) ==
  IF n = 0 THEN Stored(objs, <<>>)
  ELSE EntryStored(StoreEntries(objs, entries, n - 1), entries[n])

StoreItems(objs, items, n) ==
  IF n = 0 THEN Stored(objs, <<>>)
  ELSE ItemStored(StoreItems(objs, items, n - 1), items[n])

StoreTree(objs, n) ==
  CASE n.t = "map" -> Allocated(StoreEntries(objs, n.e, Len(n.e)), "map")
    [] n.t = "seq" -> Allocated(StoreItems(objs, n.q, Len(n.q)), "seq")
    [] OTHER -> Stored(objs, n)

\* obj[key] = v on the mapping object id
HeapPut(objs, id, key, v) == [objs EXCEPT ![id] = Put(@, key, v)]

\* An assignment through the reference reached from object id by the key
\* path: the object is changed where it is, for every holder of a reference.
RECURSIVE HeapSetAt(_, _, _, _)
HeapSetAt(objs, id, keys, v) ==
  IF Len(keys) = 1 THEN HeapPut(objs, id, keys[1], v)
  ELSE HeapSetAt(objs, Get(objs[id], Head(keys)).id, Tail(keys), v)

\* get_or_create_spec_part(keys, True) from object id: "part[key] = {}" where
\* the key is missing, then "part = part.get(key)".
RECURSIVE HeapCreateAt(_, _, _)
HeapCreateAt(objs, id, keys) ==
  IF keys = <<>> THEN objs
  ELSE IF HasKey(objs[id], Head(keys))
  THEN HeapCreateAt(objs, Get(objs[id], Head(keys)).id, Tail(keys))
  ELSE HeapCreateAt(HeapPut(Append(objs, EmptyMap), id, Head(keys), Ref(Len(objs) + 1)),
                    Len(objs) + 1, Tail(keys))

\* _deep_merge(source, destination) on the objects src and dst, from the i-th
\* entry of source on: the values written into destination are source's own
\* objects, and a list of destination is extended where it is.
RECURSIVE HeapDeepMergeFrom(_, _, _, _)
IsMapRef(objs, v) == IsRef(v) /\ objs[v.id].t = "map"
IsSeqRef(objs, v) == IsRef(v) /\ objs[v.id].t = "seq"

HeapMergedEntry(objs, dst, key, value, held) ==
  IF IsMapRef(objs, value) /\ IsMapRef(objs, held)
  THEN HeapDeepMergeFrom(objs, value.id, held.id, 1)
  ELSE IF IsSeqRef(objs, value)
  THEN IF objs[value.id].q = <<>> THEN HeapPut(objs, dst, key, value)
       ELSE IF HasKey(objs[dst], key) /\ IsSeqRef(objs, held)
       THEN [objs EXCEPT ![held.id].q = @ \o objs[value.id].q]
       ELSE HeapPut(objs, dst, key, value)
  ELSE HeapPut(objs, dst, key, value)

HeapDeepMergeFrom(objs, src, dst, i) ==
  IF i > Len(objs[src].e) THEN objs
  ELSE HeapDeepMergeFrom(
         HeapMergedEntry(objs, dst, objs[src].e[i].k, objs[src].e[i].n,
                         Get(objs[dst], objs[src].e[i].k)),
         src, dst, i + 1)

\* The caller's objects: the document an editor is constructed from, the
\* document merged in later, and an operation.
OwnDoc ==
  MapOf(<< <<"info", MapOf(<< <<"title", Str("api")>> >>)>>,
           <<"tags", SeqNode(<<Str("a")>>)>>,
           <<"paths", MapOf(<< <<"/greet", MapOf(<< <<"get", Operation("greet")>> >>)>> >>)>> >>)

NewDoc ==
  MapOf(<< <<"info", MapOf(<< <<"version", Str("2.0")>> >>)>>,
           <<"tags", SeqNode(<<Str("b")>>)>>,
           <<"servers", SeqNode(<<Str("s")>>)>>,
           <<"components", MapOf(<< <<"securitySchemes", MapOf(<<
               <<"auth", MapOf(<< <<"type", Str("http")>> >>)>> >>)>> >>)>> >>)

SuppliedTrees == <<OwnDoc, NewDoc, Operation("new")>>

\* How an editor comes to be: from the caller's dict, or from the text of the
\* same document.
ConstructorChoices == {"dict", "text"}

\* The heap once the caller has built its three objects.
RECURSIVE SuppliedFrom(_)
WithHandle(handles, s, doc) ==
  [handles |-> Append(handles, [id |-> s.v.id, doc |-> doc]), objs |-> s.objs]
HandleStored(h, doc) == WithHandle(h.handles, StoreTree(h.objs, doc), doc)
SuppliedFrom(n) ==
  IF n = 0 THEN [handles |-> <<>>, objs |-> <<>>]
  ELSE HandleStored(SuppliedFrom(n - 1), SuppliedTrees[n])

CallerHeap == SuppliedFrom(Len(SuppliedTrees))

\* OpenAPISpecEditor(spec): "self.openapi_spec = spec" for a dict, the merge
\* of the parsed text into a new {} for a text.
ConstructedHeap(kind) ==
  IF kind = "dict"
  THEN [objs |-> CallerHeap.objs, root |-> CallerHeap.handles[1].id]
  ELSE [objs |-> StoreTree(CallerHeap.objs, OwnDoc).objs,
        root |-> StoreTree(CallerHeap.objs, OwnDoc).v.id]

OwnerMethodChoices == {"get", "post"}
OwnerValueChoices == {Str("fn1")}
OwnerPatternChoices == {"x-"}

\* What the caller may assign in an object it holds: the object's index in
\* supplied, the key path and the value.
CallerEditChoices ==
  { [handle |-> 1, keys |-> <<"info", "title">>, value |-> Str("changed")],
    [handle |-> 2, keys |-> <<"components", "securitySchemes", "auth", "type">>,
     value |-> Str("changed")],
    [handle |-> 3, keys |-> <<"summary">>, value |-> Str("changed")] }

OwnerInit ==
  /\ state = "Editor"
  /\ \E kind \in ConstructorChoices :
       /\ heap = ConstructedHeap(kind)
       /\ sources = <<kind>>
  /\ supplied = CallerHeap.handles
  /\ editor = OwnDoc
  /\ merged = OwnDoc
  /\ before = OwnDoc
  /\ cdn = NoCdn
  /\ integrations = <<>>
  /\ token_validators = <<>>
  /\ content = <<>>
  /\ outputs = [r \in Resources |-> "resolved"]
  /\ gathered = <<>>
  /\ runs = 0
  /\ calls = <<>>
  /\ rest_api = NoRestApi
  /\ permissions = <<>>
  /\ deployed = FALSE
  /\ rest_api_id = [status |-> "pending"]

OwnerUnchanged ==
  UNCHANGED << cdn, integrations, token_validators, content, outputs, gathered,
               rest_api, permissions, deployed, rest_api_id, merged, state, sources >>

\* A call on the editor that leaves the objects objs and the root object
\* root, exc being the exception it raised.
Owned(objs, root, exc, method, args) ==
  /\ runs < MaxOps
  /\ heap' = [objs |-> objs, root |-> root]
  /\ before' = editor
  /\ editor' = TreeOf(objs, Ref(root))
  /\ calls' = CallRecord(method, args, exc, IF exc = "none" THEN Str("self") ELSE None)
  /\ runs' = runs + 1
  /\ UNCHANGED supplied
  /\ OwnerUnchanged

\* editor.merge_with(new_spec), new_spec being the caller's second document
SuppliedMerged(objs, new_spec) ==
  Owned(objs, heap.root, "none", "merge_with", <<Dict(TreeOf(heap.objs, Ref(new_spec)))>>)

MergeSupplied ==
  SuppliedMerged(HeapDeepMergeFrom(heap.objs, supplied[2].id, heap.root, 1), supplied[2].id)

\* editor.add_operation(path, method, operation), operation being the
\* caller's operation object
SuppliedOperationAdded(objs, path, method, operation) ==
  Owned(objs, heap.root, "none", "add_operation",
        <<path, method, TreeOf(heap.objs, Ref(operation))>>)

AddSuppliedOperation ==
  \E path \in OpsPathChoices, method \in OwnerMethodChoices :
    SuppliedOperationAdded(
      HeapSetAt(HeapCreateAt(heap.objs, heap.root, <<"paths", path>>), heap.root,
                <<"paths", path, method>>, Ref(supplied[3].id)),
      path, method, supplied[3].id)

\* editor.add_operation_attribute(path, method, attribute, value): the
\* operation get_operation returns is assigned to, exc being what it raised.
AttributePatched(exc, path, method, attribute, value) ==
  Owned(IF exc = "none"
        THEN HeapSetAt(heap.objs, heap.root,
                       Append(OperationKeys(path, method), attribute), value)
        ELSE heap.objs,
        heap.root, exc, "add_operation_attribute", <<path, method, attribute, value>>)

PatchOperationAttribute ==
  \E path \in OpsPathChoices, method \in OwnerMethodChoices,
     attribute \in AttributeChoices, value \in OwnerValueChoices :
    AttributePatched(get_operation(editor, path, method), path, method, attribute, value)

\* editor.process_integrations(integrations, invoke_arns) for one integration:
\* the two assignments of _add_integration, the second of a new dict.
IntegrationPatchedObjs(s, keys, integration) ==
  HeapSetAt(HeapSetAt(s.objs, heap.root, Append(keys, "x-function-name"),
                      OutputNode(function_name(integration.function))),
            heap.root, Append(keys, "x-amazon-apigateway-integration"), s.v)

IntegrationsPatched(exc, integ, invoke_arns) ==
  Owned(IF exc = "none"
        THEN IntegrationPatchedObjs(
               StoreTree(heap.objs, IntegrationObject(invoke_arns[1])),
               OperationKeys(integ[1].path, integ[1].method), integ[1])
        ELSE heap.objs,
        heap.root, exc, "process_integrations", <<integ, invoke_arns>>)

PatchIntegration ==
  \E integ \in OpsIntegrationChoices :
    IntegrationsPatched(get_operation(editor, integ[1].path, integ[1].method),
                        integ, ResolvedArns(integ))

\* editor.remove_attributes_by_pattern(pattern): openapi_spec becomes the new
\* dict remove_matching_keys built, s being the heap and the reference to it.
AttributesStripped(s, pattern) ==
  Owned(s.objs, s.v.id, "none", "remove_attributes_by_pattern", <<pattern>>)

StripAttributes ==
  \E pattern \in OwnerPatternChoices :
    AttributesStripped(StoreTree(heap.objs, remove_matching_keys(pattern, editor)), pattern)

\* The caller assigns in an object it holds; the editor is not called.
CallerMutated(objs, edit) ==
  /\ runs < MaxOps
  /\ heap' = [objs |-> objs, root |-> heap.root]
  /\ supplied' = [i \in DOMAIN supplied |->
                    [id |-> supplied[i].id, doc |-> TreeOf(objs, Ref(supplied[i].id))]]
  /\ before' = editor
  /\ editor' = TreeOf(objs, Ref(heap.root))
  /\ calls' = CallRecord("caller", <<edit>>, "none", None)
  /\ runs' = runs + 1
  /\ OwnerUnchanged

CallerMutates ==
  \E edit \in CallerEditChoices :
    CallerMutated(HeapSetAt(heap.objs, supplied[edit.handle].id, edit.keys, edit.value),
                  edit)

OwnerNext ==
  \/ MergeSupplied
  \/ AddSuppliedOperation
  \/ PatchOperationAttribute
  \/ PatchIntegration
  \/ StripAttributes
  \/ CallerMutates

OwnerSpec == OwnerInit /\ [][OwnerNext]_vars

\* ------------------------------------ CdnSpec: the CDN and its site origins
\* A formatted string is the sequence of its parts, words and dashes, so
\* that two strings are equal when their parts are.

\* f"{a}-{b}"
Dash(a, b) == a \o <<"-">> \o b

MaxSites == 2

\* An attribute of a bucket resource, known once the bucket exists.
BucketAttribute(bucket, attribute) == [of |-> bucket, attribute |-> attribute]

\* An aws.s3.Bucket, a SiteBucket around one, and a bucket of another type
\* that has the same attributes.
BucketOfType(type, bucket) ==
  [type |-> type,
   arn |-> BucketAttribute(bucket, "arn"),
   id |-> BucketAttribute(bucket, "id"),
   bucket_regional_domain_name |-> BucketAttribute(bucket, "bucket_regional_domain_name")]
SiteBucket(name) == [type |-> "SiteBucket", bucket |-> BucketOfType("aws.s3.Bucket", name)]
BucketChoices ==
  {BucketOfType("aws.s3.Bucket", "plain"), SiteBucket("site"),
   BucketOfType("aws.s3.BucketV2", "other")}

SiteNameChoices == {<<"web">>, <<"docs">>}

SiteOriginArgs(bucket, name, is_target_origin) ==
  [bucket |-> bucket, name |-> name, origin_path |-> "",
   is_target_origin |-> is_target_origin, origin_id |-> Dash(name, <<"site">>)]

SiteArgsChoices ==
  {SiteOriginArgs(bucket, name, flag) :
     bucket \in BucketChoices, name \in SiteNameChoices, flag \in BOOLEAN}

ApiOriginArgs(domain_name, path_pattern) ==
  [domain_name |-> domain_name, path_pattern |-> path_pattern, origin_path |-> ""]

SitesChoices == UNION { [1..n -> SiteArgsChoices] : n \in 0..MaxSites }
ApisChoices == {<<>>, <<ApiOriginArgs(<<"api", ".", "example">>, "/api/*")>>}
HostedZoneChoices == {"None", "Z1"}

\* A resource declared with the engine: its type and its name.
Declared(type, name) == [type |-> type, name |-> name]

IsBucketOrLike(bucket) == bucket.type \in {"aws.s3.Bucket", "aws.s3.BucketV2"}
\* isinstance(args.bucket, aws.s3.Bucket) and isinstance(args.bucket, SiteBucket)
IsBucket(bucket) == bucket.type = "aws.s3.Bucket"
IsSiteBucket(bucket) == bucket.type = "SiteBucket"

\* SiteOrigin(name, args) once the bucket's arn, id and domain name are
\* taken: the access identity, the bucket policy and the origin.
SiteOriginOf(name, args, bucket_arn, bucket_id, bucket_domain_name) ==
  [exc |-> "none",
   declared |->
     << Declared("cloud_foundry:pulumi:SiteOrigin", name),
        Declared("aws.cloudfront.OriginAccessIdentity", Dash(name, <<"oai">>)),
        [type |-> "aws.s3.BucketPolicy",
         name |-> Dash(name, <<"origin", "-", "cf", "-", "policy">>),
         bucket |-> bucket_id,
         resources |-> << <<bucket_arn, "/logs/*">>, <<bucket_arn, "/*">> >>] >>,
   distribution_origin |->
     [domain_name |-> bucket_domain_name,
      origin_id |-> Dash(Dash(name, args.name), <<"site">>),
      origin_path |-> args.origin_path]]

\* SiteOrigin(name, args): what it raised, the resources it declared in their
\* order and its distribution_origin.
SiteOrigin(name, args) ==
  IF IsBucket(args.bucket)
  THEN SiteOriginOf(name, args, args.bucket.arn, args.bucket.id,
                    args.bucket.bucket_regional_domain_name)
  ELSE IF IsSiteBucket(args.bucket)
  THEN SiteOriginOf(name, args, args.bucket.bucket.arn, args.bucket.bucket.id,
                    args.bucket.bucket.bucket_regional_domain_name)
  ELSE [exc |-> "ValueError",
        declared |-> <<Declared("cloud_foundry:pulumi:SiteOrigin", name)>>,
        distribution_origin |-> None]

\* target_origin_id = None: no origin id is without parts
NoOriginId == <<>>

\* hasattr(obj, attribute)
HasAttr(obj, attribute) == attribute \in DOMAIN obj

\* find_hosted_zone_id(name): the body is "pass"
find_hosted_zone_id(name) == "None"

\* get_origins: r holds the exception raised, the resources declared, and
\* origins, site_origins and target_origin_id as they stand.
OriginsRaised(r, exc, declared) == [r EXCEPT !.exc = exc, !.declared = @ \o declared]

SiteAdded(r, site, site_args) ==
  IF site.exc # "none" THEN OriginsRaised(r, site.exc, site.declared)
  ELSE [r EXCEPT !.declared = @ \o site.declared,
                 !.origins = Append(@, site.distribution_origin),
                 !.site_origins = Append(@, site_args.name),
                 !.target_origin_id =
                    IF site_args.is_target_origin THEN site_args.origin_id ELSE @]

RECURSIVE SitesFrom(_, _, _, _)
SitesFrom(name, sites, i, r) ==
  IF i > Len(sites) \/ r.exc # "none" THEN r
  ELSE SitesFrom(name, sites, i + 1,
                 SiteAdded(r, SiteOrigin(Dash(name, sites[i].name), sites[i]), sites[i]))

\* The first api of the loop: ApiOriginArgs has neither rest_api nor name,
\* and ApiOrigin no distribution_origin.
ApiAdded(r, name, hosted_zone_id, api_args) ==
  IF hosted_zone_id # "None" /\ ~HasAttr(api_args, "rest_api")
  THEN OriginsRaised(r, "AttributeError", <<>>)
  ELSE IF ~HasAttr(api_args, "name")
  THEN OriginsRaised(r, "AttributeError", <<>>)
  ELSE OriginsRaised(r, "AttributeError",
                     <<Declared("custom:resource:ApiOrigin", Dash(name, api_args.name))>>)

ApisFrom(name, hosted_zone_id, apis, r) ==
  IF apis = <<>> \/ r.exc # "none" THEN r
  ELSE ApiAdded(r, name, hosted_zone_id, apis[1])

DefaultTarget(r) ==
  IF r.exc # "none" \/ r.target_origin_id # NoOriginId THEN r
  ELSE IF r.origins = <<>> THEN OriginsRaised(r, "IndexError", <<>>)
  ELSE [r EXCEPT !.target_origin_id = r.origins[1].origin_id]

get_origins(name, sites, apis, hosted_zone_id) ==
  DefaultTarget(
    ApisFrom(name, hosted_zone_id, apis,
             SitesFrom(name, sites, 1,
                       [exc |-> "none", declared |-> <<>>, origins |-> <<>>,
                        site_origins |-> <<>>, target_origin_id |-> NoOriginId])))

\* The caller has built the arguments of a CDN named cdn.
CdnArgs(sites, apis, hosted_zone_id) ==
  [stage |-> "Args", name |-> <<"cdn">>, sites |-> sites, apis |-> apis,
   hosted_zone_id |-> hosted_zone_id, exc |-> "none", declared |-> <<>>,
   origins |-> <<>>, site_origins |-> <<>>, target_origin_id |-> NoOriginId,
   made |-> <<>>]

CdnInit ==
  /\ cdn \in {CdnArgs(sites, apis, zone) :
                sites \in SitesChoices, apis \in ApisChoices, zone \in HostedZoneChoices}
  /\ state = "Editor"
  /\ merged = BaseSpec
  /\ editor = BaseSpec
  /\ before = BaseSpec
  /\ sources = <<>>
  /\ supplied = <<>>
  /\ heap = NoHeap
  /\ integrations = <<>>
  /\ token_validators = <<>>
  /\ content = <<>>
  /\ outputs = [r \in Resources |-> "resolved"]
  /\ gathered = <<>>
  /\ runs = 0
  /\ calls = <<>>
  /\ rest_api = NoRestApi
  /\ permissions = <<>>
  /\ deployed = FALSE
  /\ rest_api_id = [status |-> "pending"]

CdnUnchanged ==
  UNCHANGED << integrations, token_validators, content, merged, editor, before,
               outputs, state, gathered, runs, calls, rest_api, permissions,
               deployed, rest_api_id, sources, supplied, heap >>

\* SiteOrigin(f"{name}-{site_args.name}", site_args) called on its own, for
\* the next of the site arguments.
SiteOriginMade(site) ==
  /\ cdn' = [cdn EXCEPT !.made = Append(@, site)]
  /\ CdnUnchanged

MakeSiteOrigin ==
  /\ cdn.stage = "Args"
  /\ Len(cdn.made) < Len(cdn.sites)
  /\ SiteOriginMade(SiteOrigin(Dash(cdn.name, cdn.sites[Len(cdn.made) + 1].name),
                               cdn.sites[Len(cdn.made) + 1]))

\* CDN.__init__ up to the call of get_origins: the component is registered,
\* a CDN without sites and apis is rejected, the hosted zone is looked up.
CdnStarted(rejected) ==
  /\ cdn' = [cdn EXCEPT
               !.stage = IF rejected THEN "Rejected" ELSE "Checked",
               !.exc = IF rejected THEN "ValueError" ELSE "none",
               !.declared = <<Declared("cloud_foundry:pulumi:CDN", cdn.name)>>,
               !.hosted_zone_id =
                  IF rejected \/ @ # "None" THEN @ ELSE find_hosted_zone_id(cdn.name)]
  /\ CdnUnchanged

StartCdn ==
  /\ cdn.stage = "Args"
  /\ cdn.made = <<>>
  /\ CdnStarted(cdn.sites = <<>> /\ cdn.apis = <<>>)

\* self.get_origins(name, args)
OriginsGot(r) ==
  /\ cdn' = [cdn EXCEPT
               !.stage = IF r.exc = "none" THEN "Origins" ELSE "Raised",
               !.exc = r.exc,
               !.declared = @ \o r.declared,
               !.origins = r.origins,
               !.site_origins = r.site_origins,
               !.target_origin_id = r.target_origin_id]
  /\ CdnUnchanged

GetOrigins ==
  /\ cdn.stage = "Checked"
  /\ OriginsGot(get_origins(cdn.name, cdn.sites, cdn.apis, cdn.hosted_zone_id))

\* The rest of CDN.__init__: the log bucket, the certificate and the
\* distribution are declared, then site.create_policy is called on every
\* SiteOrigin, which has no such method.
Distributed(exc) ==
  /\ cdn' = [cdn EXCEPT
               !.stage = IF exc = "none" THEN "Built" ELSE "Raised",
               !.exc = exc,
               !.declared = @ \o
                 << Declared("aws.s3.Bucket", Dash(cdn.name, <<"log">>)),
                    Declared("aws.acm.Certificate", Dash(cdn.name, <<"certificate">>)),
                    [type |-> "aws.cloudfront.Distribution",
                     name |-> Dash(cdn.name, <<"distro">>),
                     target_origin_id |-> cdn.target_origin_id,
                     origins |-> cdn.origins] >>]
  /\ CdnUnchanged

Distribute ==
  /\ cdn.stage = "Origins"
  /\ Distributed(IF cdn.site_origins # <<>> THEN "AttributeError" ELSE "none")

CdnNext ==
  \/ MakeSiteOrigin
  \/ StartCdn
  \/ GetOrigins
  \/ Distribute

CdnSpec == CdnInit /\ [][CdnNext]_vars

\* ================================================================ claims


\* Declaration d names an operation of the tree.
NamesOperation(tree, d) == get_operation(tree, d.path, d.method) = "none"

\* Declaration i is the last of decls that names its operation.
LastForOperation(decls, i) ==
  \A j \in DOMAIN decls :
    OperationKeys(decls[j].path, decls[j].method)
      = OperationKeys(decls[i].path, decls[i].method) => j <= i

\* The operation declaration d names carries the integration patch made of
\* the resolved name and the resolved invocation ARN.
IntegrationPatched(tree, d, name, arn) ==
  /\ GetPath(tree, OperationKeys(d.path, d.method) \o <<"x-function-name">>) = Str(name)
  /\ GetPath(tree, OperationKeys(d.path, d.method)
                     \o <<"x-amazon-apigateway-integration", "type">>) = Str("aws_proxy")
  /\ GetPath(tree, OperationKeys(d.path, d.method)
                     \o <<"x-amazon-apigateway-integration", "uri">>) = Str(arn)
  /\ GetPath(tree, OperationKeys(d.path, d.method)
                     \o <<"x-amazon-apigateway-integration", "httpMethod">>) = Str("POST")

\* The operation declaration d names carries the vendor-integration object
\* with the given ARN.
IntegrationUriPatched(tree, d, arn) ==
  GetPath(tree, OperationKeys(d.path, d.method)
                  \o <<"x-amazon-apigateway-integration", "uri">>) = Str(arn)

\* C1: after process_integrations on declarations that all name existing
\* operations, with the positionally aligned resolved values, every declared
\* operation carries x-function-name = the resolved function name and the
\* integration object {aws_proxy, uri = the resolved ARN, POST}; the last
\* declaration of an operation wins.  (Stated for both ways the repository
\* calls it: with the ARNs alone, and with the resolved names as well.)
C1_PositionalIntegrationWiring ==
  ( /\ LatestCallIs("process_integrations")
    /\ \A i \in DOMAIN calls[1].args[1] : NamesOperation(before, calls[1].args[1][i]) )
  => \A i \in DOMAIN calls[1].args[1] :
       LastForOperation(calls[1].args[1], i)
         => IntegrationPatched(editor, calls[1].args[1][i],
                               ResolvedNames(calls[1].args[1])[i],
                               calls[1].args[2][i])

\* Every Output handed to the barrier has resolved.
EverySubmittedResolved ==
  \A i \in DOMAIN Submitted(integrations, token_validators) :
    outputs[Submitted(integrations, token_validators)[i].res] = "resolved"

\* Some Output handed to the barrier has failed.
SomeSubmittedFailed ==
  \E i \in DOMAIN Submitted(integrations, token_validators) :
    outputs[Submitted(integrations, token_validators)[i].res] = "failed"

\* C2: in a build the patch pass is invoked at most once, exactly once when
\* the continuation has run, no patch method is called twice, and the pass is
\* invoked (and the tree changed) only when every submitted Output has
\* resolved.  An invocation is the call _build makes, whatever it raises.
C2_PatcherOnceAfterBarrier ==
  /\ runs <= 1
  /\ (state \in {"Built", "BuildError"}) <=> (runs = 1)
  /\ (runs = 1) => calls # <<>>
  /\ \A i, j \in DOMAIN calls : calls[i].method = calls[j].method => i = j
  /\ (runs >= 1 \/ calls # <<>> \/ editor # merged \/ gathered # <<>>)
       => EverySubmittedResolved

C2_Witness ==
  /\ runs = 1
  /\ calls # <<>>
  /\ Len(integrations) = 2
  /\ Len(token_validators) >= 1
  /\ EverySubmittedResolved

C3_Inv ==
  /\ SomeSubmittedFailed =>
       /\ state \in {"Pending", "ResolutionFailed"}
       /\ runs = 0
       /\ calls = <<>>
       /\ editor = merged
       /\ rest_api = NoRestApi
       /\ permissions = <<>>
       /\ ~deployed
       /\ rest_api_id.status # "resolved"
  /\ state = "ResolutionFailed" =>
       /\ SomeSubmittedFailed
       /\ rest_api_id = [status |-> "failed", cause |-> "ResolutionFailed"]

C3_Step ==
  state' # state =>
    <<state, state'>> \in { <<"Pending", "AllResolved">>,
                            <<"AllResolved", "Built">>,
                            <<"Pending", "ResolutionFailed">>,
                            <<"AllResolved", "BuildError">> }

\* C3: when a submitted Output fails the build never leaves Pending except to
\* ResolutionFailed: the continuation is not entered, no patch call is made,
\* the tree stays as merged, no gateway resource, permission or deployment is
\* created, and rest_api_id fails with the resolution failure.  The state
\* only moves Pending -> AllResolved -> Built, or out to a failure; it never
\* returns to Pending.
C3_FailureAbortsBuild == []C3_Inv /\ [][C3_Step]_vars

C3_Witness ==
  /\ state = "ResolutionFailed"
  /\ SomeSubmittedFailed
  /\ \E r \in Resources : outputs[r] = "resolved"
  /\ Len(integrations) >= 1
  /\ rest_api_id.status = "failed"

\* C4: once every submitted Output has resolved and the continuation has run
\* on declarations that all name operations of the merged spec, the build is
\* Built: the gateway resource exists with the serialized patched tree as its
\* body and rest_api_id has resolved to its id.
C4_ResolvedBuildIsBuilt ==
  ( /\ runs = 1
    /\ EverySubmittedResolved
    /\ \A i \in DOMAIN integrations : NamesOperation(merged, integrations[i]) )
  => /\ state = "Built"
     /\ rest_api = [created |-> TRUE, body |-> to_yaml(editor)]
     /\ rest_api_id = [status |-> "resolved", id |-> RestApiId]

\* C5: after process_integrations the editor's tree carries either none of
\* the declared integration patches (it is the tree before the call) or all
\* of them (the last declaration of an operation winning), also when a later
\* declaration names a missing operation.
C5_NoPartialPatch ==
  LatestCallIs("process_integrations")
  => \/ editor = before
     \/ \A i \in DOMAIN calls[1].args[1] :
          LastForOperation(calls[1].args[1], i)
            => IntegrationUriPatched(editor, calls[1].args[1][i], calls[1].args[2][i])

\* The number of ARN Outputs handed to the barrier, where the gathered list is cut.
NArns == Len(all_arns(integrations, token_validators))

\* C6: the gathered list is cut into the ARN group and the name group at
\* len(all_arns), in the order submitted, and after the continuation every
\* integration i (the last one of its operation) is patched with the resolved
\* invocation ARN and the resolved function name of integration i itself.
C6_IntegrationsPatchedInOrder ==
  ( /\ runs = 1
    /\ \A i \in DOMAIN integrations : NamesOperation(merged, integrations[i]) )
  => /\ SplitArns(gathered, NArns)
          = [i \in 1..NArns |-> ResolvedValue(all_arns(integrations, token_validators)[i])]
     /\ SplitNames(gathered, NArns)
          = [i \in DOMAIN all_function_names(integrations, token_validators) |->
               ResolvedValue(all_function_names(integrations, token_validators)[i])]
     /\ \A i \in DOMAIN integrations :
          LastForOperation(integrations, i)
            => IntegrationPatched(editor, integrations[i],
                                  LambdaName(integrations[i].function),
                                  LambdaInvokeArn(integrations[i].function))

\* C7: the validator group _build cuts out of the gathered values is exactly
\* the k validators' resolved ARNs and the k validators' resolved names,
\* validator j's at position j; the gateway-role ARN is not in it.
C7_ValidatorGroupExact ==
  gathered # <<>>
  => /\ ValidatorArnGroup(SplitArns(gathered, NArns), Len(integrations))
          = ResolvedArns(token_validators)
     /\ ValidatorNameGroup(SplitNames(gathered, NArns), Len(integrations))
          = ResolvedNames(token_validators)

\* C8: the identifier _build cuts out for process_content is the resolved ARN
\* of the gateway role, whatever the numbers of integrations and validators,
\* and once the continuation has run process_content has been called with it
\* and has returned.
C8_ContentGetsRoleArn ==
  (runs = 1)
  => /\ ContentArn(SplitArns(gathered, NArns)) = GatewayRoleArn
     /\ \E c \in DOMAIN calls :
          /\ calls[c].method = "process_content"
          /\ calls[c].args[2] = GatewayRoleArn
          /\ calls[c].exc = "none"

SchemeKeys(name) == SecuritySchemesKeys \o <<name>>

\* Declaration j is the last "token" declaration of auths with its scheme name.
LastTokenForScheme(auths, j) ==
  /\ auths[j].type = "token"
  /\ \A i \in DOMAIN auths :
       (auths[i].type = "token" /\ auths[i].name = auths[j].name) => i <= j

\* C9: after process_authorizers every "token" declaration j has a scheme
\* entry whose authorizerUri is the resolved ARN at position j and whose
\* x-function-name is the resolved name of declaration j's function (the
\* Lambda name, the value integrations of that function are given).
C9_TokenAuthorizerWiring ==
  (LatestCallIs("process_authorizers") /\ calls[1].exc = "none")
  => \A j \in DOMAIN calls[1].args[1] :
       LastTokenForScheme(calls[1].args[1], j)
         => /\ GetPath(editor, SchemeKeys(calls[1].args[1][j].name)
                                 \o <<"x-amazon-apigateway-authorizer", "authorizerUri">>)
                 = Str(calls[1].args[2][j])
            /\ GetPath(editor, SchemeKeys(calls[1].args[1][j].name) \o <<"x-function-name">>)
                 = Str(LambdaName(calls[1].args[1][j].function))

\* C10: a declaration whose type is not "token" produces no patch and no
\* error: a list without token declarations leaves the whole tree unchanged,
\* a non-token declaration's scheme name keeps the entry (or the absence) it
\* had, nothing outside components changes, and the token declarations of
\* the same list are patched with the ARN at their own position.
C10_NonTokenIsNoOp ==
  LatestCallIs("process_authorizers")
  => /\ calls[1].exc = "none"
     /\ (\A j \in DOMAIN calls[1].args[1] : calls[1].args[1][j].type # "token")
          => editor = before
     /\ \A j \in DOMAIN calls[1].args[1] :
          ( /\ calls[1].args[1][j].type # "token"
            /\ \A i \in DOMAIN calls[1].args[1] :
                 calls[1].args[1][i].type = "token"
                   => calls[1].args[1][i].name # calls[1].args[1][j].name )
          => GetPath(editor, SchemeKeys(calls[1].args[1][j].name))
               = GetPath(before, SchemeKeys(calls[1].args[1][j].name))
     /\ \A i \in DOMAIN before.e :
          before.e[i].k # "components" => editor.e[i] = before.e[i]
     /\ \A j \in DOMAIN calls[1].args[1] :
          LastTokenForScheme(calls[1].args[1], j)
            => GetPath(editor, SchemeKeys(calls[1].args[1][j].name)
                                 \o <<"x-amazon-apigateway-authorizer", "authorizerUri">>)
                 = Str(calls[1].args[2][j])

\* A non-token declaration first, a token declaration of another function
\* after it, patched.
C10_Witness ==
  /\ LatestCallIs("process_authorizers")
  /\ Len(calls[1].args[1]) = 2
  /\ calls[1].args[1][1].type # "token"
  /\ calls[1].args[1][2].type = "token"
  /\ calls[1].args[2][1] # calls[1].args[2][2]
  /\ GetPath(editor, SchemeKeys(calls[1].args[1][1].name)) = None
  /\ GetPath(editor, SchemeKeys(calls[1].args[1][2].name)
                       \o <<"x-amazon-apigateway-authorizer", "authorizerUri">>)
       = Str(calls[1].args[2][2])

\* The keys of a mapping node, and whether it holds each key once.
Keys(m) == {m.e[i].k : i \in DOMAIN m.e}
HasExactlyKeys(m, ks) ==
  IsMap(m) /\ Keys(m) = ks /\ Len(m.e) = Cardinality(ks)

\* The fields of the vendor-authorizer object the data model enumerates.
AuthorizerObjectFields ==
  {"type", "authorizerUri", "identityValidationExpression", "identitySource",
   "authorizerResultTtlInSeconds"}

\* The entry written for a token declaration is a mapping with the given
\* attributes whose vendor-authorizer object has exactly the enumerated
\* fields; components and securitySchemes are mappings afterwards, and every
\* scheme of the tree before the call that no token declaration names is
\* unchanged.
TokenSchemesShaped(attributes) ==
  (LatestCallIs("process_authorizers") /\ calls[1].exc = "none")
  => /\ \A j \in DOMAIN calls[1].args[1] :
          calls[1].args[1][j].type = "token"
            => /\ IsMap(GetPath(editor, <<"components">>))
               /\ IsMap(GetPath(editor, SecuritySchemesKeys))
               /\ HasExactlyKeys(GetPath(editor, SchemeKeys(calls[1].args[1][j].name)),
                                 attributes)
               /\ HasExactlyKeys(GetPath(editor, SchemeKeys(calls[1].args[1][j].name)
                                                   \o <<"x-amazon-apigateway-authorizer">>),
                                 AuthorizerObjectFields)
     /\ IsMap(GetPath(before, SecuritySchemesKeys))
          => \A n \in Keys(GetPath(before, SecuritySchemesKeys)) :
               (\A j \in DOMAIN calls[1].args[1] :
                  calls[1].args[1][j].type = "token" => calls[1].args[1][j].name # n)
               => GetPath(editor, SchemeKeys(n)) = GetPath(before, SchemeKeys(n))

\* C11 as stated: the security-scheme entry written for a token authorizer
\* has exactly the attributes type, name, in, x-function-name and the
\* vendor-authorizer object, that object has exactly the fields type,
\* authorizerUri, identityValidationExpression, identitySource and
\* authorizerResultTtlInSeconds; missing components / securitySchemes
\* mappings are created and other existing schemes are left unchanged.
C11_SchemeShapeAsEnumerated ==
  TokenSchemesShaped({"type", "name", "in", "x-function-name",
                      "x-amazon-apigateway-authorizer"})

\* C11 amended: the entry has exactly the attributes type, name, in,
\* x-function-name, x-amazon-apigateway-authtype and the vendor-authorizer
\* object with exactly the five enumerated fields; missing components /
\* securitySchemes mappings are created and other existing schemes are left
\* unchanged.
C11_SchemeShapeWithAuthtype ==
  TokenSchemesShaped({"type", "name", "in", "x-function-name",
                      "x-amazon-apigateway-authtype",
                      "x-amazon-apigateway-authorizer"})

\* A first call created components.securitySchemes with the scheme auth, a
\* second one added auth2 beside it.
C11_Witness ==
  /\ runs = 2
  /\ ~HasKey(merged, "components")
  /\ LatestCallIs("process_authorizers")
  /\ calls[1].exc = "none"
  /\ \E j \in DOMAIN calls[1].args[1] :
       calls[1].args[1][j].type = "token" /\ calls[1].args[1][j].name = "auth2"
  /\ \A j \in DOMAIN calls[1].args[1] : calls[1].args[1][j].name # "auth"
  /\ IsMap(GetPath(before, SchemeKeys("auth")))
  /\ GetPath(before, SchemeKeys("auth2")) = None
  /\ GetPath(editor, SchemeKeys("auth")) = GetPath(before, SchemeKeys("auth"))
  /\ IsMap(GetPath(editor, SchemeKeys("auth2")))

\* ------------------------------------------------- claims on the store

\* A scalar: a value that is neither a mapping nor a sequence.
IsScalar(n) == n.t \in {"str", "int", "none"}

\* The key paths of a tree: every path that leads through mappings to a node.
RECURSIVE PathsOf(_)
PathsOf(n) ==
  IF ~IsMap(n) THEN {<<>>}
  ELSE {<<>>} \cup UNION { {<<n.e[i].k>> \o p : p \in PathsOf(n.e[i].n)} : i \in DOMAIN n.e }

\* The document a dict or a text source holds.
DocumentOf(source) == IF source.k = "dict" THEN source.doc ELSE source.parsed

\* The latest call is a merge_with that returned.
MergedNow == LatestCallIs("merge_with") /\ calls[1].exc = "none"

\* The latest call constructed an editor from a list of two texts.
BuiltFromTwo ==
  /\ LatestCallIs("__init__")
  /\ calls[1].exc = "none"
  /\ calls[1].args[1].k = "list"
  /\ Len(calls[1].args[1].items) = 2
  /\ \A i \in 1..2 : calls[1].args[1].items[i].k = "text"

\* At every key path where both documents hold a scalar, and at every key
\* path where one holds a mapping and the other a scalar, the result holds
\* the incoming document's value.
LastWins(dest, inc, result) ==
  \A p \in (PathsOf(inc) \cap PathsOf(dest)) \ {<<>>} :
    ( \/ IsScalar(GetPath(inc, p)) /\ IsScalar(GetPath(dest, p))
      \/ IsMap(GetPath(inc, p)) /\ IsScalar(GetPath(dest, p))
      \/ IsScalar(GetPath(inc, p)) /\ IsMap(GetPath(dest, p)) )
    => GetPath(result, p) = GetPath(inc, p)

\* C12: last fragment wins on scalar conflict.  After merge_with, and after
\* constructing from two fragments, the tree holds the incoming (later)
\* document's value at every key path where both documents hold a scalar, and
\* also where the two values are of different kinds (mapping over scalar,
\* scalar over mapping).
C12_LastFragmentWins ==
  /\ MergedNow => LastWins(before, DocumentOf(calls[1].args[1]), editor)
  /\ BuiltFromTwo => LastWins(DocumentOf(calls[1].args[1].items[1]),
                              DocumentOf(calls[1].args[1].items[2]), editor)

\* info.version "1.0" met "2.0", and the mapping info met a scalar.
C12_Witness ==
  /\ MergedNow
  /\ runs = 2
  /\ GetPath(merged, <<"info", "version">>) = Str("1.0")
  /\ GetPath(before, <<"info", "version">>) = Str("2.0")
  /\ GetPath(before, <<"openapi">>) = Str("3.0.3")
  /\ IsScalar(GetPath(DocumentOf(calls[1].args[1]), <<"info">>))
  /\ GetPath(editor, <<"info">>) = Str("version 2.0")

\* The sequence rule: what a key holds after an incoming sequence met what
\* the destination held there.
SeqRule(dest_value, inc_value) ==
  IF inc_value.q = <<>> THEN SeqNode(<<>>)
  ELSE IF IsSeq(dest_value) THEN SeqNode(dest_value.q \o inc_value.q)
  ELSE inc_value

SeqsMerged(dest, inc, result) ==
  \A p \in PathsOf(inc) :
    IsSeq(GetPath(inc, p))
      => GetPath(result, p) = SeqRule(GetPath(dest, p), GetPath(inc, p))

\* C13: for every key whose incoming value is a sequence the merged value is
\* the empty sequence when the incoming one is empty, the destination
\* sequence followed by the incoming one (order and duplicates kept) when the
\* destination holds a sequence and the incoming one is non-empty, and the
\* incoming sequence otherwise.
C13_SequenceMergeRule ==
  /\ MergedNow => SeqsMerged(before, DocumentOf(calls[1].args[1]), editor)
  /\ BuiltFromTwo => SeqsMerged(DocumentOf(calls[1].args[1].items[1]),
                                DocumentOf(calls[1].args[1].items[2]), editor)

\* tags [a], then [b, a] appended, then cleared by [].
C13_Witness ==
  /\ MergedNow
  /\ runs = 2
  /\ GetPath(merged, <<"tags">>) = SeqNode(<<Str("a")>>)
  /\ GetPath(before, <<"tags">>) = SeqNode(<<Str("a"), Str("b"), Str("a")>>)
  /\ GetPath(DocumentOf(calls[1].args[1]), <<"tags">>) = SeqNode(<<>>)
  /\ GetPath(editor, <<"tags">>) = SeqNode(<<>>)

\* Wherever both documents hold a mapping (the roots first), the result holds a
\* mapping with exactly the keys of both, each once, and a key of one side
\* only keeps that side's value.
KeysKept(dest, inc, result) ==
  \A p \in PathsOf(inc) \cap PathsOf(dest) :
    (IsMap(GetPath(inc, p)) /\ IsMap(GetPath(dest, p)))
    => /\ HasExactlyKeys(GetPath(result, p),
                         Keys(GetPath(dest, p)) \cup Keys(GetPath(inc, p)))
       /\ \A k \in Keys(GetPath(dest, p)) \ Keys(GetPath(inc, p)) :
            GetPath(result, Append(p, k)) = GetPath(dest, Append(p, k))
       /\ \A k \in Keys(GetPath(inc, p)) \ Keys(GetPath(dest, p)) :
            GetPath(result, Append(p, k)) = GetPath(inc, Append(p, k))

\* C14: merging keeps every key that is present on only one side, with its
\* value: the merged document's keys are exactly the union of both, and where
\* both sides hold a mapping the same holds of the nested mapping.
C14_MergeKeepsOneSidedKeys ==
  /\ MergedNow => KeysKept(before, DocumentOf(calls[1].args[1]), editor)
  /\ BuiltFromTwo => KeysKept(DocumentOf(calls[1].args[1].items[1]),
                              DocumentOf(calls[1].args[1].items[2]), editor)

\* Two documents without a common top-level key, then one that shares info
\* with the tree but not info.version's siblings.
C14_Witness ==
  /\ MergedNow
  /\ runs = 2
  /\ Keys(merged) = {"info", "servers"}
  /\ Keys(before) = {"info", "servers", "paths", "tags"}
  /\ Keys(DocumentOf(calls[1].args[1])) = {"openapi", "info", "tags"}
  /\ GetPath(DocumentOf(calls[1].args[1]), <<"info", "title">>) = Str("api")
  /\ Keys(editor) = {"info", "servers", "paths", "tags", "openapi"}
  /\ GetPath(editor, <<"info", "title">>) = Str("api")
  /\ GetPath(editor, <<"servers">>) = GetPath(merged, <<"servers">>)

\* The editor was constructed from a text and every call since was a
\* merge_with of a text that returned.
OnlyTextsMerged ==
  /\ state = "Editor"
  /\ Len(sources) = runs + 1
  /\ \A i \in DOMAIN sources : sources[i].k = "text"

\* C15: an editor constructed from the text f_1 and then given
\* merge_with(f_2), ..., merge_with(f_n) holds the tree an editor constructed
\* from the list [f_1, ..., f_n] holds.
C15_ListIsSuccessiveMerges ==
  OnlyTextsMerged
  => /\ OpenAPISpecEditor(ListOf(sources)).exc = "none"
     /\ OpenAPISpecEditor(ListOf(sources)).tree = editor

\* Three different fragments, the second appending to the first's sequence
\* and overriding its version.
C15_Witness ==
  /\ OnlyTextsMerged
  /\ Len(sources) = 3
  /\ sources[1].parsed = DocFirst
  /\ sources[2].parsed = DocSecond
  /\ sources[3].parsed = DocPaths
  /\ sources[2].isfile
  /\ GetPath(before, <<"tags">>) = SeqNode(<<Str("a"), Str("b"), Str("a")>>)
  /\ GetPath(editor, <<"info", "version">>) = Str("2.0")
  /\ IsMap(GetPath(editor, <<"tags">>))

\* A spec input the claim counts as none of the supported kinds: a value of
\* another type, a list with an item that is no text, a text payload that
\* parses to something that is no mapping.
NotASpecInput(spec) ==
  \/ spec.k \in {"int", "none"}
  \/ spec.k = "list" /\ \E i \in DOMAIN spec.items : spec.items[i].k # "text"
  \/ spec.k = "text" /\ ~spec.isfile /\ spec.parsed # YamlError /\ ~IsMap(spec.parsed)

\* C16: constructing an editor from an input that is neither a document, nor
\* a text or file path, nor a list of texts / file paths fails with
\* InvalidSpecInput (the ValueError of __init__), also for a list holding a
\* non-text item and for a text payload that does not parse to a mapping.
C16_InvalidSpecInputRejected ==
  (LatestCallIs("__init__") /\ NotASpecInput(calls[1].args[1]))
  => calls[1].exc = "ValueError"

\* The latest call loaded the text of an existing file.
FileLoadedNow ==
  /\ LatestCallIs("__init__") \/ LatestCallIs("merge_with")
  /\ calls[1].args[1].k = "text"
  /\ calls[1].args[1].isfile

\* C17: loading an existing file whose extension is not supported fails with
\* UnsupportedFormatError (the ValueError of _load_openapi_spec) and leaves
\* the tree unchanged; a file with the extension .yaml, .yml or .json that
\* holds a document is loaded and merged (a constructor given it alone holds
\* that document).
C17_FileLoadedByExtension ==
  FileLoadedNow
  => IF calls[1].args[1].ext \in {"yaml", "yml", "json"}
     THEN IsMap(calls[1].args[1].parsed)
            => /\ calls[1].exc = "none"
               /\ Keys(calls[1].args[1].parsed) \subseteq Keys(editor)
               /\ LatestCallIs("__init__") => editor = calls[1].args[1].parsed
     ELSE calls[1].exc = "ValueError" /\ editor = before

\* Every segment of the key path is a key of the mapping before it.
RECURSIVE Present(_, _)
Present(n, keys) ==
  keys = <<>> \/ (HasKey(n, Head(keys)) /\ Present(Get(n, Head(keys)), Tail(keys)))

\* The non-empty prefixes of a key path.
Prefixes(keys) == {SubSeq(keys, 1, i) : i \in 1..Len(keys)}

\* No node of the tree was replaced: a mapping is still a mapping with its
\* keys, any other node is the same.
NodesKept(old, new) ==
  \A p \in PathsOf(old) :
    IF IsMap(GetPath(old, p))
    THEN IsMap(GetPath(new, p)) /\ Keys(GetPath(old, p)) \subseteq Keys(GetPath(new, p))
    ELSE Present(new, p) /\ GetPath(new, p) = GetPath(old, p)

\* What get_or_create_spec_part(keys, True) is to do to the tree and return.
CreatedAlong(old, new, keys, call) ==
  /\ call.exc = "none"
  /\ Present(new, keys)
  /\ call.ret = GetPath(new, keys)
  /\ NodesKept(old, new)
  /\ PathsOf(new) = PathsOf(old) \cup Prefixes(keys)
  /\ \A q \in Prefixes(keys) : ~Present(old, q) => IsMap(GetPath(new, q))

\* C18: get_or_create_spec_part(keys, create) with create true returns the
\* node at the path after creating every missing node along it as an empty
\* mapping, replacing no node that exists; with create false it fails with
\* SpecPathNotFound (KeyError) when a segment is missing, and leaves the tree
\* unchanged.
C18_GetOrCreate ==
  LatestCallIs("get_or_create_spec_part")
  => IF calls[1].args[2]
     THEN CreatedAlong(before, editor, calls[1].args[1], calls[1])
     ELSE /\ editor = before
          /\ ~Present(before, calls[1].args[1]) => calls[1].exc = "KeyError"

\* C19: get_spec_part(keys) never raises and never modifies the tree,
\* whatever the tree, the path and the create argument: it returns the node
\* at the path, or None when there is none.
C19_GetNeverRaises ==
  LatestCallIs("get_spec_part")
  => /\ calls[1].exc = "none"
     /\ editor = before
     /\ calls[1].ret = GetPath(before, calls[1].args[1])

\* The lowercase form of the methods callers pass.
LowercaseOf(method) ==
  CASE method = "GET" -> "get"
    [] method = "POST" -> "post"
    [] method = "get" -> "get"
    [] method = "post" -> "post"
    [] method = "parameters" -> "parameters"

\* C20: get_operation(path, method) returns paths[path][lowercase(method)]
\* when it exists, raises OperationNotFound (ValueError) when the path key is
\* absent (also without any paths mapping) or the method key is absent under
\* the path, raises in no other case, and never modifies the tree.
C20_GetOperation ==
  LatestCallIs("get_operation")
  => /\ editor = before
     /\ IF Present(before, <<"paths", calls[1].args[1], LowercaseOf(calls[1].args[2])>>)
        THEN /\ calls[1].exc = "none"
             /\ calls[1].ret = GetPath(before, <<"paths", calls[1].args[1],
                                                LowercaseOf(calls[1].args[2])>>)
        ELSE /\ calls[1].exc = "ValueError"
             /\ \/ ~Present(before, <<"paths", calls[1].args[1]>>)
                \/ ~HasKey(GetPath(before, <<"paths", calls[1].args[1]>>),
                           LowercaseOf(calls[1].args[2]))

\* The operation of /greet found under an uppercase method, after a lookup
\* failed on a tree without paths and the paths were merged in.
C20_Witness ==
  /\ LatestCallIs("get_operation")
  /\ ~HasKey(merged, "paths")
  /\ calls[1].args = <<"/greet", "GET">>
  /\ calls[1].exc = "none"
  /\ calls[1].ret = Operation("greet")
  /\ editor = before

\* ------------------------------------------- claims on the operations

\* The latest call is the given method and it returned.
ReturnedFrom(method) == LatestCallIs(method) /\ calls[1].exc = "none"

\* The modelled spellings of a method that equal it ignoring letter case.
SameIgnoringCase(method) ==
  {m \in {"get", "GET", "post", "POST"} : LowercaseOf(m) = LowercaseOf(method)}

\* C21: an operation is identified by (path, method), the method
\* case-insensitive.  After add_operation(p, m, op) returned, get_operation(p,
\* m') returns op for every m' that equals m ignoring letter case, and the
\* operation is stored under the lowercase method key.
C21_OperationByPathAndMethod ==
  ReturnedFrom("add_operation")
  => /\ \A m \in SameIgnoringCase(calls[1].args[2]) :
          /\ get_operation(editor, calls[1].args[1], m) = "none"
          /\ GetPath(editor, OperationKeys(calls[1].args[1], m)) = calls[1].args[3]
     /\ Present(editor, <<"paths", calls[1].args[1], LowercaseOf(calls[1].args[2])>>)
     /\ GetPath(editor, <<"paths", calls[1].args[1], LowercaseOf(calls[1].args[2])>>)
          = calls[1].args[3]

\* Whether one key path is a prefix of another.
IsPrefix(q, keys) == Len(q) <= Len(keys) /\ SubSeq(keys, 1, Len(q)) = q

\* The key path of the attribute the latest add_operation_attribute names.
AttributePath ==
  <<"paths", calls[1].args[1], LowercaseOf(calls[1].args[2]), calls[1].args[3]>>

\* Nothing but the node at the key path differs between the two trees: every
\* other key path of either tree is a key path of both, and holds the same
\* value unless it leads to the node.
OnlyChangedAt(old, new, keys) ==
  \A q \in PathsOf(old) \cup PathsOf(new) :
    ~IsPrefix(keys, q)
    => /\ Present(old, q) /\ Present(new, q)
       /\ IF IsPrefix(q, keys)
          THEN IsMap(GetPath(old, q)) /\ IsMap(GetPath(new, q))
               /\ Keys(GetPath(new, q)) \ Keys(GetPath(old, q)) \subseteq {keys[Len(q) + 1]}
          ELSE GetPath(new, q) = GetPath(old, q)

\* C22: add_operation_attribute(path, method, attribute, value) on an
\* existing operation returns the editor itself, leaves value at
\* paths.path.method.attribute, and changes nothing else in the tree: no other
\* attribute of the operation, no other operation, no other section.
C22_AttributeSetInPlace ==
  ( /\ LatestCallIs("add_operation_attribute")
    /\ IsMap(GetPath(before, <<"paths", calls[1].args[1], LowercaseOf(calls[1].args[2])>>)) )
  => /\ calls[1].exc = "none"
     /\ calls[1].ret = Str("self")
     /\ Present(editor, AttributePath)
     /\ GetPath(editor, AttributePath) = calls[1].args[4]
     /\ OnlyChangedAt(before, editor, AttributePath)

\* The summary of /greet's get replaced through an uppercase method, the
\* function name beside it and the operation of /token as they were.
C22_Witness ==
  /\ ReturnedFrom("add_operation_attribute")
  /\ before = DocPatched
  /\ calls[1].args = <<"/greet", "GET", "summary", Str("fn1")>>
  /\ GetPath(editor, <<"paths", "/greet", "get", "summary">>) = Str("fn1")
  /\ GetPath(editor, <<"paths", "/greet", "get", "x-function-name">>) = Str("fn1")
  /\ GetPath(editor, <<"paths", "/token">>) = GetPath(DocPatched, <<"paths", "/token">>)
  /\ editor # before

\* The walks of a tree: every sequence of mapping keys and sequence positions
\* that leads from the root to a node.
RECURSIVE WalksOf(_)
WalksOf(n) ==
  {<<>>} \cup
    CASE n.t = "map" ->
           UNION { {<<[k |-> n.e[i].k]>> \o w : w \in WalksOf(n.e[i].n)} : i \in DOMAIN n.e }
      [] n.t = "seq" ->
           UNION { {<<[at |-> i]>> \o w : w \in WalksOf(n.q[i])} : i \in DOMAIN n.q }
      [] OTHER -> {}

\* The node a walk leads to.
RECURSIVE NodeAt(_, _)
NodeAt(n, w) ==
  IF w = <<>> THEN n
  ELSE IF "k" \in DOMAIN Head(w) THEN NodeAt(Get(n, Head(w).k), Tail(w))
  ELSE NodeAt(n.q[Head(w).at], Tail(w))

\* The key starts with the pattern's characters.
StartsWith(key, pattern) == key = pattern \/ <<pattern, key>> \in PrefixPairs

\* The walks that pass no key the pattern matches at its start.
WalksKept(n, pattern) ==
  {w \in WalksOf(n) :
     \A j \in DOMAIN w : "k" \in DOMAIN w[j] => ~StartsWith(w[j].k, pattern)}

\* C23: remove_attributes_by_pattern(regex) removes, from every mapping at
\* every depth (mappings inside sequences included), exactly the keys the regex
\* matches at the start of the key, with their subtrees, and keeps every other
\* key with its value: the nodes left are those no removed key leads to, each
\* of the kind it was, each scalar with its value.
C23_PatternRemovalAnchored ==
  ( LatestCallIs("remove_attributes_by_pattern") /\ IsRegex(calls[1].args[1]) )
  => /\ calls[1].exc = "none"
     /\ WalksOf(editor) = WalksKept(before, calls[1].args[1])
     /\ \A w \in WalksOf(editor) :
          /\ NodeAt(editor, w).t = NodeAt(before, w).t
          /\ IsScalar(NodeAt(before, w)) => NodeAt(editor, w) = NodeAt(before, w)

\* "x-" removed x-function-name from the operations and the scheme and
\* x-internal from the parameter inside the sequence; functionName and name
\* are kept.
C23_Witness ==
  /\ ReturnedFrom("remove_attributes_by_pattern")
  /\ calls[1].args = <<"x-">>
  /\ before = DocPatched
  /\ ~Present(editor, <<"paths", "/greet", "get", "x-function-name">>)
  /\ ~Present(editor, <<"components", "securitySchemes", "auth", "x-function-name">>)
  /\ GetPath(editor, <<"paths", "/greet", "get", "functionName">>) = Str("fn1")
  /\ GetPath(editor, <<"paths", "/greet", "get", "parameters">>)
       = SeqNode(<<MapOf(<< <<"name", Str("q")>> >>)>>)

\* The x-function-name values of the members of a mapping that are mappings,
\* in the mapping's order, from the i-th member on.
RECURSIVE NamesOfMembers(_, _)
NamesOfMembers(m, i) ==
  IF ~IsMap(m) \/ i > Len(m.e) THEN <<>>
  ELSE (IF HasKey(m.e[i].n, "x-function-name")
        THEN <<Get(m.e[i].n, "x-function-name")>> ELSE <<>>)
       \o NamesOfMembers(m, i + 1)

\* Those of every path item, in document order, from the i-th path on.
RECURSIVE NamesOfPaths(_, _)
NamesOfPaths(paths, i) ==
  IF ~IsMap(paths) \/ i > Len(paths.e) THEN <<>>
  ELSE NamesOfMembers(paths.e[i].n, 1) \o NamesOfPaths(paths, i + 1)

\* Every x-function-name under paths.*.*, then every one under
\* components.securitySchemes.*.
FunctionNamesOf(tree) ==
  NamesOfPaths(GetPath(tree, <<"paths">>), 1)
    \o NamesOfMembers(GetPath(tree, <<"components", "securitySchemes">>), 1)

\* C24: get_function_names() returns every x-function-name under paths.*.*
\* followed by every one under components.securitySchemes.*, in document
\* order, one entry per occurrence, whatever the tree holds (path items with
\* members that are no operations, no paths, no components), and never
\* modifies the tree.
C24_FunctionNames ==
  LatestCallIs("get_function_names")
  => /\ calls[1].exc = "none"
     /\ calls[1].ret = FunctionNamesOf(before)
     /\ editor = before

\* dict and list equality as Python takes it: mappings are equal when they
\* hold equal values under the same keys, in whatever order.
RECURSIVE PyEq(_, _)
PyEq(a, b) ==
  CASE a.t = "map" /\ b.t = "map" ->
         Keys(a) = Keys(b) /\ \A k \in Keys(a) : PyEq(Get(a, k), Get(b, k))
    [] a.t = "seq" /\ b.t = "seq" ->
         Len(a.q) = Len(b.q) /\ \A i \in DOMAIN a.q : PyEq(a.q[i], b.q[i])
    [] OTHER -> a = b

\* A value YAML can hold: no node of it is an unresolved Output.
Serializable(n) == \A w \in WalksOf(n) : NodeAt(n, w).t # "output"

\* The key paths paths.p.m.a of a tree at which an operation holds a
\* serializable value.
PatchedAttributes(tree) ==
  {p \in PathsOf(tree) :
     /\ Len(p) = 4
     /\ p[1] = "paths"
     /\ p[3] = LowercaseOf(p[3])
     /\ Serializable(GetPath(tree, p))}

\* C25: operation attribute round trip.  A tree that holds a serializable
\* value v at paths.p.m.a is the tree add_operation_attribute(p, m, a, v)
\* leaves (the call made on it again changes nothing); for every such tree,
\* to_yaml followed by parsing the text into a new editor gives a tree equal
\* to it, with v at paths.p.m.a.
C25_AttributeRoundTrip ==
  LatestCallIs("__init__")
  => \A p \in PatchedAttributes(before) :
       /\ calls[1].exc = "none"
       /\ PyEq(editor, before)
       /\ PyEq(GetPath(editor, p), GetPath(before, p))

\* ------------------------------------- claims on the tree's ownership

\* The latest step was a call on the editor, not the caller's own assignment.
EditorCalled == calls # <<>> /\ calls[1].method # "caller"

\* Every object the caller holds has the value the caller left it with.
SuppliedAsLeft ==
  \A i \in DOMAIN supplied : TreeOf(heap.objs, Ref(supplied[i].id)) = supplied[i].doc

\* C26: the spec tree is never aliased with caller data.  After construction
\* and any calls of merge_with and the patch operations, every document object
\* the caller supplied holds what the caller left in it (no editor operation
\* has changed it), and an assignment the caller makes in such an object
\* leaves the editor's tree as it was.
C26_TreeNotAliased ==
  /\ SuppliedAsLeft
  /\ LatestCallIs("caller") => editor = before

\* The objects reachable from a value, each with the walk that leads to it.
RECURSIVE ObjectWalks(_, _)
ObjectWalks(objs, v) ==
  IF ~IsRef(v) THEN {}
  ELSE {<<v.id, <<>>>>} \cup
       IF objs[v.id].t = "map"
       THEN UNION { {<<x[1], <<[k |-> objs[v.id].e[i].k]>> \o x[2]>> :
                       x \in ObjectWalks(objs, objs[v.id].e[i].n)} :
                    i \in DOMAIN objs[v.id].e }
       ELSE UNION { {<<x[1], <<[at |-> i]>> \o x[2]>> :
                       x \in ObjectWalks(objs, objs[v.id].q[i])} :
                    i \in DOMAIN objs[v.id].q }

\* No mapping or sequence of the stored spec is reached by two walks.
NoNodeReachedTwice ==
  \A x, y \in ObjectWalks(heap.objs, Ref(heap.root)) : x[1] = y[1] => x[2] = y[2]

\* C27: after any sequence of editor operations the stored spec is a tree of
\* mappings, sequences and scalars: no node is reachable by two different
\* paths (a cycle would be one) and no value is a non-serializable,
\* unresolved one.
C27_StoredSpecIsATree ==
  /\ NoNodeReachedTwice
  /\ Serializable(editor)

\* ------------------------------------------- claims on the CDN's origins

\* The bucket behind a backing store of a supported kind.
UnderlyingBucket(bucket) == IF bucket.type = "SiteBucket" THEN bucket.bucket ELSE bucket
SupportedBucket(bucket) == bucket.type \in {"aws.s3.Bucket", "SiteBucket"}

\* The bucket policy a SiteOrigin declared is of the bucket b.
PolicyOfBucket(site, b) ==
  \E j \in DOMAIN site.declared :
    /\ site.declared[j].type = "aws.s3.BucketPolicy"
    /\ site.declared[j].bucket = b.id
    /\ site.declared[j].resources = << <<b.arn, "/logs/*">>, <<b.arn, "/*">> >>

\* A SiteOrigin that failed declared no access identity and no bucket policy,
\* and has no distribution origin.
NothingWired(site) ==
  /\ \A j \in DOMAIN site.declared :
       site.declared[j].type \notin {"aws.cloudfront.OriginAccessIdentity", "aws.s3.BucketPolicy"}
  /\ site.distribution_origin = None

\* C28: origin wiring given a backing store that is neither a plain bucket
\* nor a SiteBucket fails with the invalid-bucket-type error before the access
\* identity, the bucket policy or the distribution origin is declared; for
\* either supported kind the ARN and id the policy uses and the regional
\* domain name of the origin are those of the underlying bucket.
C28_SiteOriginBucketKinds ==
  \A i \in DOMAIN cdn.made :
    IF SupportedBucket(cdn.sites[i].bucket)
    THEN /\ cdn.made[i].exc = "none"
         /\ PolicyOfBucket(cdn.made[i], UnderlyingBucket(cdn.sites[i].bucket))
         /\ cdn.made[i].distribution_origin.domain_name =
              UnderlyingBucket(cdn.sites[i].bucket).bucket_regional_domain_name
    ELSE /\ cdn.made[i].exc = "ValueError"
         /\ NothingWired(cdn.made[i])

\* A SiteOrigin over a bucket of another type has failed, and one over a
\* SiteBucket has the domain name of the bucket inside it.
C28_Witness ==
  \E i, j \in DOMAIN cdn.made :
    /\ cdn.sites[i].bucket.type = "aws.s3.BucketV2"
    /\ cdn.made[i].exc = "ValueError"
    /\ Len(cdn.made[i].declared) = 1
    /\ cdn.sites[j].bucket.type = "SiteBucket"
    /\ cdn.made[j].exc = "none"
    /\ cdn.made[j].distribution_origin.domain_name =
         BucketAttribute("site", "bucket_regional_domain_name")

\* The origin ids of the origins get_origins returned, and the sites flagged
\* is_target_origin.
OriginIds == {cdn.origins[i].origin_id : i \in DOMAIN cdn.origins}
FlaggedSites == {i \in DOMAIN cdn.sites : cdn.sites[i].is_target_origin}
LastFlagged == CHOOSE i \in FlaggedSites : \A j \in FlaggedSites : j <= i

\* A CDN without sites and apis was rejected with only itself registered.
EmptyCdnRejected ==
  (cdn.stage # "Args" /\ cdn.sites = <<>> /\ cdn.apis = <<>>)
  => /\ cdn.stage = "Rejected"
     /\ cdn.exc = "ValueError"
     /\ cdn.origins = <<>>
     /\ cdn.declared = <<Declared("cloud_foundry:pulumi:CDN", cdn.name)>>

\* C30: the target_origin_id get_origins returns is the origin_id of one of
\* the origins it returns: of the origin of the last site or api flagged
\* is_target_origin when there is one, of the first origin otherwise; and a
\* CDN with neither sites nor apis is rejected before any origin is built.
C30_TargetOriginAmongOrigins ==
  /\ cdn.stage = "Origins"
     => /\ cdn.target_origin_id \in OriginIds
        /\ cdn.target_origin_id =
             IF FlaggedSites # {} THEN cdn.origins[LastFlagged].origin_id
             ELSE cdn.origins[1].origin_id
  /\ EmptyCdnRejected

\* -------------------------------------- claims on the build's permissions

\* The function names the continuation hands to _build.
BuildNames == SplitNames(gathered, Len(all_arns(integrations, token_validators)))
NamesOf(names) == {names[i] : i \in DOMAIN names}
NoneTwice(names) == \A i, j \in DOMAIN names : names[i] = names[j] => i = j

\* C29: after a build exactly one invoke permission exists for each distinct
\* function name among the resolved names of the integrations and the token
\* validators, however many declarations share a function, and a permission
\* exists only once the gateway resource has been created.
C29_OnePermissionPerFunction ==
  /\ runs = 1 => (NamesOf(permissions) = NamesOf(BuildNames) /\ NoneTwice(permissions))
  /\ permissions # <<>> => rest_api.created

\* ------------------------------------------------------ supporting facts
\* What TLC finds to hold beside the refuted claims; the divergences cite them.

\* Every continuation ends in the TypeError of its first patch call, with the
\* tree as merged; no build is ever Built.
BuildAlwaysRaises ==
  /\ state # "Built"
  /\ (runs = 1) => (Len(calls) = 1 /\ calls[1].exc = "TypeError" /\ editor = merged)

\* The arguments _build hands to process_integrations are the declarations
\* with their own resolved ARNs and names, in order (the slicing half of C6).
IntegrationGroupAligned ==
  (runs = 1)
  => calls[1].args
       = <<integrations, ResolvedArns(integrations), ResolvedNames(integrations)>>

\* The validator groups as _build cuts them: the ARN group carries the
\* gateway-role ARN as an extra last element, the name group lacks the last
\* validator's name.
ValidatorGroupsAsCut ==
  gathered # <<>>
  => /\ ValidatorArnGroup(SplitArns(gathered, NArns), Len(integrations))
          = ResolvedArns(token_validators) \o <<GatewayRoleArn>>
     /\ ValidatorNameGroup(SplitNames(gathered, NArns), Len(integrations))
          = SubSeq(ResolvedNames(token_validators), 1, Len(token_validators) - 1)

\* invoke_arns[-1] is the gateway-role ARN (the slicing half of C8).
ContentSliceIsRoleArn ==
  gathered # <<>> => ContentArn(SplitArns(gathered, NArns)) = GatewayRoleArn

\* process_authorizers writes the function's logical name as x-function-name.
TokenAuthorizerGetsLogicalName ==
  (LatestCallIs("process_authorizers") /\ calls[1].exc = "none")
  => \A j \in DOMAIN calls[1].args[1] :
       LastTokenForScheme(calls[1].args[1], j)
         => GetPath(editor, SchemeKeys(calls[1].args[1][j].name) \o <<"x-function-name">>)
              = Str(calls[1].args[1][j].function.name)

\* A value of an unsupported type is rejected with the ValueError of
\* __init__; a list item that is no text and a payload that is no mapping
\* fail inside _merge_spec with an AttributeError or a TypeError.
UnsupportedTypeRejected ==
  LatestCallIs("__init__")
  => /\ calls[1].args[1].k \in {"int", "none"} => calls[1].exc = "ValueError"
     /\ (NotASpecInput(calls[1].args[1]) /\ calls[1].args[1].k \notin {"int", "none"})
          => calls[1].exc \in {"AttributeError", "TypeError"}

\* A .yaml or .yml file that holds a document is loaded and merged; the path
\* of any other file is parsed as a payload, a scalar, and the merge raises
\* AttributeError with the tree unchanged.
OnlyYamlFilesLoaded ==
  FileLoadedNow
  => IF calls[1].args[1].ext \in {"yaml", "yml"}
     THEN /\ calls[1].exc = "none"
          /\ Keys(calls[1].args[1].parsed) \subseteq Keys(editor)
     ELSE calls[1].exc = "AttributeError" /\ editor = before

\* The key path leads through mappings: every node of the tree strictly
\* inside it is a mapping, and none on it is null.
ThroughMappings(tree, keys) ==
  \A i \in 1..Len(keys) :
    Present(tree, SubSeq(keys, 1, i))
      => /\ GetPath(tree, SubSeq(keys, 1, i)) # None
         /\ i < Len(keys) => IsMap(GetPath(tree, SubSeq(keys, 1, i)))

\* On a key path that leads through mappings get_or_create_spec_part does
\* what C18 says.
GetOrCreateThroughMappings ==
  (LatestCallIs("get_or_create_spec_part") /\ ThroughMappings(before, calls[1].args[1]))
  => IF calls[1].args[2]
     THEN CreatedAlong(before, editor, calls[1].args[1], calls[1])
     ELSE /\ editor = before
          /\ IF Present(before, calls[1].args[1])
             THEN calls[1].exc = "none" /\ calls[1].ret = GetPath(before, calls[1].args[1])
             ELSE calls[1].exc = "KeyError"

\* get_spec_part never modifies the tree, and on a key path that leads
\* through mappings it does not raise.
GetSpecPartThroughMappings ==
  LatestCallIs("get_spec_part")
  => /\ editor = before
     /\ ThroughMappings(before, calls[1].args[1])
          => /\ calls[1].exc = "none"
             /\ calls[1].ret = GetPath(before, calls[1].args[1])

\* add_operation stores the operation under the method as given, whatever
\* its case, and a lookup finds it when the method was given in lowercase.
AddOperationStoresAsGiven ==
  ReturnedFrom("add_operation")
  => /\ GetPath(editor, <<"paths", calls[1].args[1], calls[1].args[2]>>) = calls[1].args[3]
     /\ calls[1].args[2] = LowercaseOf(calls[1].args[2])
          => \A m \in SameIgnoringCase(calls[1].args[2]) :
               /\ get_operation(editor, calls[1].args[1], m) = "none"
               /\ GetPath(editor, OperationKeys(calls[1].args[1], m)) = calls[1].args[3]

\* Every member of every path item is a mapping.
OnlyOperationsUnderPaths(tree) ==
  \A p \in PathsOf(GetPath(tree, <<"paths">>)) : Len(p) = 2 => IsMap(GetPath(tree, <<"paths">> \o p))

\* get_function_names returns the names in document order, one per
\* occurrence, and leaves the tree alone when the path items hold operations
\* only; on a tree without paths or components it returns what the other
\* section holds.
FunctionNamesOverOperations ==
  ( LatestCallIs("get_function_names") /\ OnlyOperationsUnderPaths(before) )
  => /\ calls[1].exc = "none"
     /\ calls[1].ret = FunctionNamesOf(before)
     /\ editor = before

\* A path item with a member that is no mapping makes it raise.
FunctionNamesRaiseOnOtherMembers ==
  ( LatestCallIs("get_function_names") /\ ~OnlyOperationsUnderPaths(before) )
  => calls[1].exc = "AttributeError" /\ editor = before

\* A tree without an Output object is read back equal from its text.
RoundTripOfPlainTrees ==
  ( LatestCallIs("__init__") /\ Serializable(before) )
  => calls[1].exc = "none" /\ PyEq(editor, before)

\* The editor's tree is the value of the object openapi_spec refers to.
EditorIsStoredTree == editor = TreeOf(heap.objs, Ref(heap.root))

\* The objects reachable from a value.
ObjectsOf(v) == {x[1] : x \in ObjectWalks(heap.objs, v)}

\* No object of the stored spec is an object the caller holds.
SharesNothingWithCaller ==
  \A i \in DOMAIN supplied :
    ObjectsOf(Ref(heap.root)) \cap ObjectsOf(Ref(supplied[i].id)) = {}

\* An editor constructed from a text holds objects of its own, each reached
\* by one walk.
TextConstructionSharesNothing ==
  (calls = <<>> /\ sources = <<"text">>) => (NoNodeReachedTwice /\ SharesNothingWithCaller)

\* remove_attributes_by_pattern leaves a tree of new mappings and sequences.
StrippedTreeIsTheEditorsOwn ==
  LatestCallIs("remove_attributes_by_pattern")
  => (NoNodeReachedTwice /\ SharesNothingWithCaller)

\* Where every object of the stored spec is reached by one walk,
\* add_operation_attribute changes the one attribute and nothing else.
AttributeSetInPlaceWhereUnshared == NoNodeReachedTwice => C22_AttributeSetInPlace

\* With no site flagged the target is the id of the first origin.
UnflaggedTargetIsFirstOrigin ==
  (cdn.stage = "Origins" /\ FlaggedSites = {})
  => (cdn.target_origin_id = cdn.origins[1].origin_id /\ cdn.target_origin_id \in OriginIds)

\* With a site flagged the target is the origin_id of its arguments, which
\* is the id of no origin.
FlaggedTargetIsArgsOriginId ==
  (cdn.stage = "Origins" /\ FlaggedSites # {})
  => /\ cdn.target_origin_id = cdn.sites[LastFlagged].origin_id
     /\ cdn.target_origin_id \notin OriginIds

\* get_origins returns for no CDN that has an api, and no CDN is built.
ApisAlwaysRaise ==
  /\ (cdn.apis # <<>>) => cdn.stage \in {"Args", "Checked", "Raised"}
  /\ cdn.stage # "Built"

\* _create_lambda_permissions on the names of a build makes one permission
\* for each distinct name, in the order of the first occurrences.
PermissionsOncePerName ==
  state = "AllResolved"
  => /\ NamesOf(CreateLambdaPermissions(BuildNames, <<>>)) = NamesOf(BuildNames)
     /\ NoneTwice(CreateLambdaPermissions(BuildNames, <<>>))

\* No build creates a permission: each ends before the gateway resource.
NoPermissionCreated == permissions = <<>> /\ ~rest_api.created

====
